---- MODULE Spec2Model ----
(***************************************************************************)
(* ESY Sunhome integration: the mode-change confirmation state machine of  *)
(* ModeSelect (select.py), driven by the coordinator's telemetry snapshot  *)
(* (coordinator.py, protocol.py) and the mode tables of BatteryState       *)
(* (battery.py).                                                           *)
(*                                                                         *)
(* ModeSelect runs on one asyncio loop: a handler runs atomically up to    *)
(* its next await.  Every accepted request r starts a chain                *)
(*   send -> timer armed -> timer fired (task created) -> callback ->      *)
(*   re-send -> timer armed -> ...                                         *)
(* whose closure holds the (mode_name, mode_key) of that request; pc[r] is *)
(* the position of chain r.                                                *)
(***************************************************************************)
EXTENDS Integers, Sequences, FiniteSets, TLC

\* ---------------------------------------------------------------- bounds
MaxRequests == 2      \* accepted mode-change requests per behaviour
MaxModeCode == 2      \* telemetry carries running-mode codes 0..MaxModeCode

\* ------------------------------------------------------------- constants
MAX_RETRIES == 2

None == "None"        \* Python None where a mode name is expected
NoKey == -1           \* Python None where a mode key (int) is expected
NoTimer == 0          \* Python None in _confirmation_timeout

\* protocol.py MODE_NAMES: running-mode register value -> display name
MODE_NAMES ==
  [c \in 0..7 |->
     CASE c = 1 -> "Regular Mode"
       [] c = 4 -> "Emergency Mode"
       [] c = 3 -> "Electricity Sell Mode"
       [] c = 5 -> "Battery Energy Management"
       [] c = 0 -> "Battery Priority Mode"
       [] c = 2 -> "Grid Priority Mode"
       [] c = 6 -> "PV Mode"
       [] c = 7 -> "Forced Off Grid Mode"]

\* a write table that holds the display codes of BatteryState.modes
modes_to_mqtt_display ==
  [n \in {"Regular Mode", "Emergency Mode", "Electricity Sell Mode",
          "Battery Energy Management"} |->
     CASE n = "Regular Mode" -> 1
       [] n = "Emergency Mode" -> 2
       [] n = "Electricity Sell Mode" -> 3
       [] n = "Battery Energy Management" -> 4]

\* battery.py BatteryState.modes_to_mqtt: display name -> register value to write
modes_to_mqtt ==
  [n \in {"Regular Mode", "Emergency Mode", "Electricity Sell Mode",
          "Battery Energy Management"} |->
     CASE n = "Regular Mode" -> 1
       [] n = "Emergency Mode" -> 4
       [] n = "Electricity Sell Mode" -> 3
       [] n = "Battery Energy Management" -> 5]

\* battery.py BatteryState.modes: the dropdown's options
modes ==
  [k \in 1..4 |->
     CASE k = 1 -> "Regular Mode"
       [] k = 2 -> "Emergency Mode"
       [] k = 3 -> "Electricity Sell Mode"
       [] k = 4 -> "Battery Energy Management"]

attr_options == [i \in 1..4 |-> modes[i]]

\* protocol.py _compute_derived_values, mode block: result["code"] for a
\* frame whose running-mode register holds c ("or 1" turns 0 into 1)
display_mode(c) == IF c = 0 THEN 1 ELSE c

ModeCodeName(c) == MODE_NAMES[display_mode(c)]

\* get_mode_key with a default: modes_to_mqtt.get(value, 1)
get_mode_key_default(value) ==
  IF value \in DOMAIN modes_to_mqtt THEN modes_to_mqtt[value] ELSE 1

\* select.py ModeSelect.get_mode_key
get_mode_key(value) ==
  IF value \in DOMAIN modes_to_mqtt THEN modes_to_mqtt[value] ELSE NoKey

\* ----------------------------------------------------------------- inputs
TelemetryCodes == 0..MaxModeCode
\* names a caller asks for: two of the dropdown's options and one name that
\* telemetry can show but that has no write code
RequestNames == {attr_options[1], attr_options[3], MODE_NAMES[2]}
Requests == 1..MaxRequests

VARIABLES
  self,        \* the ModeSelect entity's fields
  last_code,   \* coordinator._last_data.get("code")
  pc,          \* pc[r]: position of request r's send/timer chain
  closure,     \* closure[r]: (mode_name, mode_key) captured by chain r
  nreq,        \* number of accepted requests so far
  writes,      \* writes[r]: write commands issued by chain r (counted up to WritesCap)
  out,         \* outputs of the last handler run: error raised, events fired, write issued
  protocol,    \* DynamicTelemetryParser.protocol: the register definitions in use
  configured_mode,  \* coordinator._configured_mode: the mode code the cloud API reports
  last_data,   \* coordinator._last_data: the canonical telemetry snapshot
  io,          \* the last message or codec call and what it returned
  poll_msg_id,     \* coordinator._poll_msg_id: the message-id counter
  mqtt_connected,  \* coordinator._mqtt_connected (a client exists while it is TRUE)
  issued,      \* the commands built so far, in order: [kind, command]
  coordinator_data,  \* coordinator.data: the attributes of the newest TelemetryData
  kept_view    \* the attributes of a TelemetryData that a reader still holds

svars == <<self, last_code, pc, closure, nreq, writes, out>>
tvars == <<protocol, configured_mode, last_data, io>>
cvars == <<poll_msg_id, mqtt_connected, issued>>
dvars == <<coordinator_data, kept_view>>
vars == <<self, last_code, pc, closure, nreq, writes, out,
          protocol, configured_mode, last_data, io,
          poll_msg_id, mqtt_connected, issued, coordinator_data, kept_view>>

\* events on hass.bus: <<event type, mode, detail>>
Ev(name, mode, detail) == <<name, mode, detail>>

\* a handler run that raises nothing, fires no event and issues no write;
\* option is the argument when the run is a call of async_select_option
NoOut ==
  [option |-> None, raised |-> "", events |-> {}, write |-> NoKey, rid |-> 0]

\* writes[r] counts up to here
WritesCap == MAX_RETRIES + 2

\* ModeSelect.__init__ and the class attribute _attr_current_option
InitSelf ==
  [pending_mode_name |-> None,
   pending_mode_key |-> NoKey,
   retry_count |-> 0,
   confirmation_timeout |-> NoTimer,
   actual_mqtt_mode_name |-> None,
   is_loading |-> FALSE,
   attr_current_option |-> attr_options[1]]

Init ==
  /\ self = InitSelf
  /\ last_code = None
  /\ pc = [r \in Requests |-> "idle"]
  /\ closure = [r \in Requests |-> [mode_name |-> None, mode_key |-> NoKey]]
  /\ nreq = 0
  /\ writes = [r \in Requests |-> 0]
  /\ out = NoOut
  /\ protocol = None
  /\ configured_mode = None
  /\ last_data = <<>>
  /\ io = <<>>
  /\ poll_msg_id = 0
  /\ mqtt_connected = FALSE
  /\ issued = <<>>
  /\ coordinator_data = <<>>
  /\ kept_view = <<>>

\* A world w = [self, pc, events]: what the synchronous helpers read and change.
World == [self |-> self, pc |-> pc, events |-> {}]

\* TimerHandle.cancel(): stops the callback only if the handle has not fired
cancel(pcf, h) ==
  IF h # NoTimer /\ pcf[h] = "armed" THEN [pcf EXCEPT ![h] = "cancelled"] ELSE pcf

\* ModeSelect._set_pending_state
set_pending_state(w, mode_name, mode_key) ==
  [w EXCEPT !.self.pending_mode_name = mode_name,
            !.self.pending_mode_key = mode_key,
            !.self.retry_count = 0,
            !.self.is_loading = TRUE]

\* _clear_pending_state that forgets the timer: the handle is dropped, not cancelled
clear_pending_state_no_cancel(w, success) ==
  IF w.self.pending_mode_name = None /\ ~w.self.is_loading
  THEN w
  ELSE [self |-> [w.self EXCEPT !.pending_mode_name = None,
                                !.pending_mode_key = NoKey,
                                !.retry_count = 0,
                                !.is_loading = FALSE,
                                !.confirmation_timeout = NoTimer],
        pc |-> w.pc,
        events |-> IF success /\ w.self.pending_mode_name # None
                   THEN w.events \cup
                        {Ev("esy_sunhome_mode_changed", w.self.pending_mode_name, "success")}
                   ELSE w.events]

\* ModeSelect._clear_pending_state
clear_pending_state(w, success) ==
  IF w.self.pending_mode_name = None /\ ~w.self.is_loading
  THEN w
  ELSE [self |-> [w.self EXCEPT !.pending_mode_name = None,
                                !.pending_mode_key = NoKey,
                                !.retry_count = 0,
                                !.is_loading = FALSE,
                                !.confirmation_timeout = NoTimer],
        pc |-> cancel(w.pc, w.self.confirmation_timeout),
        events |-> IF success /\ w.self.pending_mode_name # None
                   THEN w.events \cup
                        {Ev("esy_sunhome_mode_changed", w.self.pending_mode_name, "success")}
                   ELSE w.events]

\* _schedule_confirmation_timeout whose call_later never fires: the old
\* handle is cancelled and the new one stored, but chain r is over
schedule_confirmation_timeout_lost(w, r) ==
  [w EXCEPT !.pc = [cancel(w.pc, w.self.confirmation_timeout) EXCEPT ![r] = "done"],
            !.self.confirmation_timeout = r]

\* ModeSelect._schedule_confirmation_timeout, lines 408-416: cancel the
\* existing handle, arm a new one whose callback is chain r's closure
schedule_confirmation_timeout(w, r) ==
  [w EXCEPT !.pc = [cancel(w.pc, w.self.confirmation_timeout) EXCEPT ![r] = "armed"],
            !.self.confirmation_timeout = r]

\* "if self._actual_mqtt_mode_name: self._attr_current_option = ..."
revert_display(w) ==
  IF w.self.actual_mqtt_mode_name # None
  THEN [w EXCEPT !.self.attr_current_option = w.self.actual_mqtt_mode_name]
  ELSE w

\* _handle_coordinator_update that shows what telemetry says even while a
\* request is pending
handle_coordinator_update_show_always(w, mqtt_mode_name) ==
  IF mqtt_mode_name = None THEN w
  ELSE LET w1 == [w EXCEPT !.self.actual_mqtt_mode_name = mqtt_mode_name,
                           !.self.attr_current_option = mqtt_mode_name] IN
       IF w1.self.pending_mode_name # None /\ mqtt_mode_name = w1.self.pending_mode_name
       THEN clear_pending_state(w1, TRUE)
       ELSE w1

\* ModeSelect._handle_coordinator_update
handle_coordinator_update(w, mqtt_mode_name) ==
  IF mqtt_mode_name = None THEN w
  ELSE LET w1 == [w EXCEPT !.self.actual_mqtt_mode_name = mqtt_mode_name] IN
       IF w1.self.pending_mode_name # None
       THEN IF mqtt_mode_name = w1.self.pending_mode_name
            THEN clear_pending_state(
                   [w1 EXCEPT !.self.attr_current_option = mqtt_mode_name], TRUE)
            ELSE w1
       ELSE [w1 EXCEPT !.self.attr_current_option = mqtt_mode_name]

\* What one handler run leaves behind: the new entity fields, the timers it
\* cancelled or armed, and its observable outputs.
Commit(w, o) ==
  /\ self' = w.self
  /\ pc' = w.pc
  /\ out' = [o EXCEPT !.events = w.events]

\* ModeSelect.async_select_option, up to the await of the first send
\* (the write command of _attempt_mode_change is issued in the same run)
async_select_option(option) ==
  /\ UNCHANGED <<tvars, cvars, dvars>>
  /\ LET mode_key == get_mode_key(option) IN
     IF mode_key = NoKey
     THEN /\ out' = [NoOut EXCEPT !.option = option, !.raised = "invalid"]
          /\ UNCHANGED <<self, last_code, pc, closure, nreq, writes>>
     ELSE IF self.actual_mqtt_mode_name = option
     THEN /\ out' = [NoOut EXCEPT !.option = option]
          /\ UNCHANGED <<self, last_code, pc, closure, nreq, writes>>
     ELSE /\ nreq < MaxRequests
          /\ LET r == nreq + 1
                 w1 == set_pending_state(
                         [World EXCEPT !.self.attr_current_option = option],
                         option, mode_key)
             IN /\ Commit([w1 EXCEPT !.pc[r] = "req_sending"],
                          [NoOut EXCEPT !.option = option, !.rid = r, !.write = mode_key])
                /\ nreq' = r
                /\ closure' = [closure EXCEPT ![r] = [mode_name |-> option, mode_key |-> mode_key]]
                /\ writes' = [writes EXCEPT ![r] = 1]
          /\ UNCHANGED last_code

\* ModeSelect._attempt_mode_change after the send returned: lines 192-225
\* when it succeeded, the except block (227-256) when it failed
attempt_mode_change_done(r, sent) ==
  /\ pc[r] = "req_sending"
  /\ LET mode_name == closure[r].mode_name
         o == NoOut
     IN IF sent
        THEN Commit(schedule_confirmation_timeout(
                      [World EXCEPT !.events = {Ev("esy_sunhome_mode_change_requested",
                                                   mode_name, "sent")}], r),
                    o)
        ELSE LET w1 == clear_pending_state(revert_display(World), FALSE)
                 w2 == [w1 EXCEPT !.pc[r] = "done",
                                  !.events = @ \cup {Ev("esy_sunhome_mode_changed",
                                                        mode_name, "failure")}]
             IN Commit(w2, [o EXCEPT !.raised = "dispatch"])
  /\ UNCHANGED <<last_code, closure, nreq, writes>>
  /\ UNCHANGED <<tvars, cvars, dvars>>

\* hass.loop.call_later fires: lambda: asyncio.create_task(_timeout_callback())
timer_fire(r) ==
  /\ pc[r] = "armed"
  /\ pc' = [pc EXCEPT ![r] = "fired"]
  /\ out' = NoOut
  /\ UNCHANGED <<self, last_code, closure, nreq, writes>>
  /\ UNCHANGED <<tvars, cvars, dvars>>

\* _timeout_callback from its start to the await of the re-send (320-349),
\* or through the exhaustion branch (376-406)
timeout_callback(r) ==
  /\ pc[r] = "fired"
  /\ LET mode_name == closure[r].mode_name
         mode_key == closure[r].mode_key
         o == NoOut
     IN IF self.pending_mode_name = None
        THEN /\ Commit([World EXCEPT !.pc[r] = "done"], o)
             /\ UNCHANGED writes
        ELSE LET w1 == [World EXCEPT !.self.retry_count = @ + 1] IN
             IF w1.self.retry_count <= MAX_RETRIES
             THEN /\ Commit([w1 EXCEPT !.pc[r] = "cb_sending",
                                       !.events = {Ev("esy_sunhome_mode_change_retry",
                                                      mode_name, "retry")}],
                            [o EXCEPT !.rid = r, !.write = mode_key])
                  /\ writes' = [writes EXCEPT ![r] = IF @ < WritesCap THEN @ + 1 ELSE @]
             ELSE LET w2 == revert_display(w1)
                      w3 == [w2 EXCEPT !.events = {Ev("esy_sunhome_mode_change_timeout",
                                                      mode_name, "timeout")}]
                      w4 == clear_pending_state(w3, FALSE)
                  IN /\ Commit([w4 EXCEPT !.pc[r] = "done"], o)
                     /\ UNCHANGED writes
  /\ UNCHANGED <<last_code, closure, nreq>>
  /\ UNCHANGED <<tvars, cvars, dvars>>

\* _timeout_callback after the re-send returned: re-arm (350-365) or the
\* except block (367-375)
timeout_callback_resume(r, sent) ==
  /\ pc[r] = "cb_sending"
  /\ IF sent
     THEN Commit(schedule_confirmation_timeout(World, r), NoOut)
     ELSE LET w1 == clear_pending_state(revert_display(World), FALSE)
          IN Commit([w1 EXCEPT !.pc[r] = "done"], NoOut)
  /\ UNCHANGED <<last_code, closure, nreq, writes>>
  /\ UNCHANGED <<tvars, cvars, dvars>>

\* ESYSunhomeCoordinator._process_telemetry for a frame whose running-mode
\* register holds c: merge into _last_data, async_set_updated_data, and the
\* entity's _handle_coordinator_update
process_telemetry(c) ==
  /\ last_code' = ModeCodeName(c)
  /\ Commit(handle_coordinator_update(World, ModeCodeName(c)),
            NoOut)
  /\ UNCHANGED <<closure, nreq, writes>>
  /\ UNCHANGED <<tvars, cvars, dvars>>

\* ESYSunhomeCoordinator._async_update_data: the periodic refresh hands the
\* cached snapshot (empty before the first frame) to the listeners; the
\* TelemetryData it returns has the attributes coordinator.data already has
async_update_data ==
  /\ Commit(handle_coordinator_update(World, last_code), NoOut)
  /\ UNCHANGED <<last_code, closure, nreq, writes>>
  /\ UNCHANGED <<tvars, cvars, dvars>>

Next ==
  \/ \E option \in RequestNames : async_select_option(option)
  \/ \E r \in Requests, sent \in BOOLEAN : attempt_mode_change_done(r, sent)
  \/ \E r \in Requests : timer_fire(r)
  \/ \E r \in Requests : timeout_callback(r)
  \/ \E r \in Requests, sent \in BOOLEAN : timeout_callback_resume(r, sent)
  \/ \E c \in TelemetryCodes : process_telemetry(c)
  \/ async_update_data

Spec == Init /\ [][Next]_vars

\* --------------------------------------------------------------- typing
TypeOK ==
  /\ self.retry_count \in 0..(MAX_RETRIES + 1)
  /\ self.confirmation_timeout \in {NoTimer} \cup Requests
  /\ nreq \in 0..MaxRequests
  /\ \A r \in Requests :
       pc[r] \in {"idle", "req_sending", "armed", "fired", "cb_sending", "cancelled", "done"}

\* ------------------------------------------------------- derived notions
Pending == self.pending_mode_name # None
Armed == {r \in Requests : pc[r] = "armed"}
SuccessEvents == {e \in out.events : e[1] = "esy_sunhome_mode_changed" /\ e[3] = "success"}
TimeoutEvents == {e \in out.events : e[1] = "esy_sunhome_mode_change_timeout"}
\* this step is chain r's send (initial or re-issued) returning a failure
SendFailed(r) == pc[r] \in {"req_sending", "cb_sending"} /\ pc'[r] = "done"
\* this step is chain r's timer callback starting
CallbackStarts(r) == pc[r] = "fired" /\ pc'[r] # "fired"
\* this step is chain r's timer callback resuming after its re-send
CallbackResumes(r) == pc[r] = "cb_sending" /\ pc'[r] # "cb_sending"
\* this step is a call of async_select_option
SelectCalled == out'.option # None
\* this step accepted a request
Accepted == nreq' = nreq + 1

\* C1: whenever a mode-change request ends in failure (retries exhausted or
\* a dispatch failure), the displayed mode afterwards equals the last mode
\* observed on telemetry, whatever telemetry was received before.
C1_FailureShowsObservedMode ==
  [][((\E r \in Requests : SendFailed(r)) \/ TimeoutEvents' # {})
       => self'.attr_current_option = self'.actual_mqtt_mode_name]_vars

\* C2: a request for n is accepted iff n has a write code and differs from
\* the last observed mode; on acceptance pending = n, retry count 0 and the
\* display shows n before the send completes; and whenever a request is
\* pending the display equals the pending target.
C2_AcceptedIffAndOptimistic ==
  /\ [](Pending => self.attr_current_option = self.pending_mode_name)
  /\ [][SelectCalled =>
          /\ Accepted <=>
               /\ out'.option \in DOMAIN modes_to_mqtt
               /\ out'.option # self.actual_mqtt_mode_name
          /\ Accepted =>
               /\ self'.pending_mode_name = out'.option
               /\ self'.pending_mode_key = modes_to_mqtt[out'.option]
               /\ self'.retry_count = 0
               /\ self'.attr_current_option = out'.option
               /\ pc'[nreq'] = "req_sending"]_vars

\* a request is pending after a retry, telemetry has reported another mode,
\* and the display still shows the pending target
C2_Witness ==
  /\ Pending
  /\ self.retry_count >= 1
  /\ self.actual_mqtt_mode_name # None
  /\ self.actual_mqtt_mode_name # self.pending_mode_name
  /\ self.attr_current_option = self.pending_mode_name

\* C3: a telemetry update reporting m while t is pending: m = t clears
\* target, key and retry count, cancels the outstanding timer, records a
\* success and displays m; m # t keeps target and retry count; in both
\* cases the last observed mode becomes m.
C3_UpdateWhilePending ==
  [][((last_code' # last_code \/ SuccessEvents' # {}) /\ Pending) =>
       /\ self'.actual_mqtt_mode_name = last_code'
       /\ (last_code' = self.pending_mode_name) =>
            /\ self'.pending_mode_name = None
            /\ self'.pending_mode_key = NoKey
            /\ self'.retry_count = 0
            /\ self'.confirmation_timeout = NoTimer
            /\ \A r \in Requests : pc'[r] # "armed"
            /\ out'.events =
                 {Ev("esy_sunhome_mode_changed", self.pending_mode_name, "success")}
            /\ self'.attr_current_option = last_code'
       /\ (last_code' # self.pending_mode_name) =>
            /\ self'.pending_mode_name = self.pending_mode_name
            /\ self'.pending_mode_key = self.pending_mode_key
            /\ self'.retry_count = self.retry_count
            /\ out'.events = {}]_vars

\* a confirmation that arrived after a retry and cancelled an armed timer
C3_Witness ==
  /\ SuccessEvents # {}
  /\ \E r \in Requests : pc[r] = "cancelled" /\ writes[r] >= 2
  /\ ~Pending
  /\ self.attr_current_option = last_code

\* C4: once a new request is accepted, no write command for the previous
\* target is issued any more: every write is issued for the newest
\* accepted request.
C4_NoWriteForSupersededRequest ==
  [][out'.write # NoKey => out'.rid = nreq']_vars

\* C5: when the timer callback runs while a request is pending and retries
\* remain, it issues a write carrying the pending request's wire code,
\* increments the retry count by exactly one and stays pending.
C5_RetryResendsPendingCode ==
  [][\A r \in Requests :
       (CallbackStarts(r) /\ Pending /\ self.retry_count < MAX_RETRIES) =>
         /\ out'.write = self.pending_mode_key
         /\ self'.retry_count = self.retry_count + 1
         /\ self'.pending_mode_name = self.pending_mode_name]_vars

\* C6: for every accepted request at most 1 + MAX_RETRIES write commands
\* are issued on its behalf.
C6_BoundedWrites ==
  \A r \in Requests : writes[r] <= 1 + MAX_RETRIES

\* C7: when the initial or a re-issued write fails, the machine leaves
\* Pending at once: target cleared, no timer left armed, and the display
\* restored to the last observed mode.
C7_DispatchFailureReverts ==
  [][(\E r \in Requests : SendFailed(r)) =>
       /\ self'.pending_mode_name = None
       /\ \A r \in Requests : pc'[r] # "armed"
       /\ self'.attr_current_option = self'.actual_mqtt_mode_name]_vars

\* C8: once the request has left Pending, the timer path is a no-op: a
\* callback that starts or resumes while nothing is pending issues no
\* write, changes no field of the entity and arms no timer.
C8_CallbackNoOpWhenNotPending ==
  [][\A r \in Requests :
       ((CallbackStarts(r) \/ CallbackResumes(r)) /\ ~Pending) =>
         /\ self' = self
         /\ out'.write = NoKey
         /\ \A q \in Requests : pc'[q] = "armed" => pc[q] = "armed"]_vars

\* C9: a request whose name has no write code is rejected with an error:
\* no command, no timer, no event, and pending target, retry count, last
\* observed mode and display are unchanged.
C9_InvalidRequestRejected ==
  [][(SelectCalled /\ out'.option \notin DOMAIN modes_to_mqtt) =>
       /\ out'.raised = "invalid"
       /\ out'.write = NoKey
       /\ out'.events = {}
       /\ self' = self
       /\ pc' = pc
       /\ writes' = writes
       /\ nreq' = nreq]_vars

\* an invalid name was rejected while another request is pending with its
\* timer armed
C9_Witness ==
  /\ out.option \notin DOMAIN modes_to_mqtt
  /\ out.raised = "invalid"
  /\ Pending
  /\ Armed # {}

\* C10: every exit from Pending other than confirmation surfaces a failure
\* (an error raised to the caller or a failure/timeout event).
C10_FailureSurfaced ==
  [][(Pending /\ self'.pending_mode_name = None /\ SuccessEvents' = {}) =>
       \/ out'.raised # ""
       \/ \E e \in out'.events :
            \/ e[1] = "esy_sunhome_mode_change_timeout"
            \/ (e[1] = "esy_sunhome_mode_changed" /\ e[3] = "failure")]_vars

\* ======================================================================
\* The binary protocol: frame header, payload segments (protocol.py and the
\* stand-alone library esy_inverter_protocol.py)
\* ======================================================================

\* bytes objects are sequences of 0..255; Optional results are <<>> for
\* Python's None and <<v>> for a value v
NoneResult == <<>>
Some(v) == <<v>>

HEADER_SIZE == 24

\* data[lo:hi] of Python: clipped to the length, empty when lo >= hi
Slice(data, lo, hi) ==
  LET h == IF hi < Len(data) THEN hi ELSE Len(data) IN
  IF lo >= h THEN <<>> ELSE SubSeq(data, lo + 1, h)

\* struct.pack(">H", v) and struct.pack(">I", v), for v within the field
pack_H(v) == <<(v \div 256) % 256, v % 256>>
pack_I(v) == <<(v \div 16777216) % 256, (v \div 65536) % 256, (v \div 256) % 256, v % 256>>

\* struct.unpack(">H", b)[0], struct.unpack(">I", b)[0]
unpack_H(b) == b[1] * 256 + b[2]
unpack_I(b) == ((b[1] * 256 + b[2]) * 256 + b[3]) * 256 + b[4]

\* (data[pos] << 8) | data[pos + 1], pos counted from 0
word_at(data, pos) == data[pos + 1] * 256 + data[pos + 2]

\* protocol.py, MsgHeader.to_bytes
MsgHeader_to_bytes(h) ==
  pack_I(h.config_id) \o pack_I(h.msg_id) \o h.user_id
    \o <<h.fun_code, h.source_id>> \o pack_H(h.page_index) \o pack_I(h.data_length)

\* protocol.py, MsgHeader.from_bytes
MsgHeader_from_bytes(data) ==
  IF Len(data) < HEADER_SIZE THEN NoneResult
  ELSE Some([config_id |-> unpack_I(Slice(data, 0, 4)),
             msg_id |-> unpack_I(Slice(data, 4, 8)),
             user_id |-> Slice(data, 8, 16),
             fun_code |-> data[17],
             source_id |-> data[18],
             page_index |-> unpack_H(Slice(data, 18, 20)),
             data_length |-> unpack_I(Slice(data, 20, 24))])

\* esy_inverter_protocol.py, int16_to_bytes_be and bytes_to_uint16_be
int16_to_bytes_be(value) == <<(value \div 256) % 256, value % 256>>
bytes_to_uint16_be(b0, b1) == (b0 % 256) * 256 + (b1 % 256)

\* bytes.ljust(8, b'\x00') of the first 8 bytes
ljust8(b) ==
  LET u == Slice(b, 0, 8) IN u \o [i \in 1..(8 - Len(u)) |-> 0]

\* esy_inverter_protocol.py, MsgHeader.to_bytes: pageIndex is one byte,
\* three reserved bytes, dataLength is 16 bits, sourceId is shifted left by 4
inverter_MsgHeader_to_bytes(h) ==
  pack_I(h.config_id) \o pack_I(h.msg_id) \o ljust8(h.user_id)
    \o <<h.fun_code % 256, (h.source_id * 16) % 256, h.page_index % 256>>
    \o <<0, 0, 0>> \o int16_to_bytes_be(h.data_length)

\* esy_inverter_protocol.py, MsgHeader.from_bytes
inverter_MsgHeader_from_bytes(data) ==
  IF Len(data) < HEADER_SIZE THEN NoneResult
  ELSE Some([config_id |-> unpack_I(Slice(data, 0, 4)),
             msg_id |-> unpack_I(Slice(data, 4, 8)),
             user_id |-> Slice(data, 8, 16),
             fun_code |-> data[17] % 256,
             source_id |-> data[18] % 256,
             page_index |-> data[19] % 256,
             data_length |-> bytes_to_uint16_be(data[23], data[24])])

\* protocol.py, PayloadParser.parse: the loop over the declared segments
\* (lines 102-131), with `left` iterations to go
RECURSIVE parse_segments(_, _, _, _)
parse_segments(payload, pos, left, segments) ==
  IF left = 0 \/ pos + 8 > Len(payload) THEN segments
  ELSE LET params_num == word_at(payload, pos + 6)
           pos1 == pos + 8
           values_len == params_num * 2
       IN IF pos1 + values_len > Len(payload) THEN segments
          ELSE parse_segments(
                 payload, pos1 + values_len, left - 1,
                 Append(segments,
                        [segment_id |-> word_at(payload, pos),
                         segment_type |-> word_at(payload, pos + 2),
                         segment_address |-> word_at(payload, pos + 4),
                         params_num |-> params_num,
                         values |-> Slice(payload, pos1, pos1 + values_len)]))

\* protocol.py, PayloadParser.parse
PayloadParser_parse(payload) ==
  IF Len(payload) < 2 THEN <<>>
  ELSE parse_segments(payload, 2, word_at(payload, 0), <<>>)

\* esy_inverter_protocol.py, PayloadParser._read_uint16 at a position:
\* the value read and the position after it
read_uint16(data, position) ==
  IF position + 2 > Len(data)
  THEN [value |-> 0, position |-> position]
  ELSE [value |-> bytes_to_uint16_be(data[position + 1], data[position + 2]),
        position |-> position + 2]

\* esy_inverter_protocol.py, PayloadParser.parse_params_list: the loop
\* (lines 693-709); a segment whose values do not fit is appended with the
\* default empty values and the loop goes on after its header
RECURSIVE params_list_segments(_, _, _, _)
params_list_segments(data, position, left, segments) ==
  IF left = 0 \/ position + 8 > Len(data) THEN segments
  ELSE LET params_num == read_uint16(data, position + 6).value
           position1 == position + 8
           value_bytes == params_num * 2
           fits == position1 + value_bytes <= Len(data)
       IN params_list_segments(
            data, IF fits THEN position1 + value_bytes ELSE position1, left - 1,
            Append(segments,
                   [segment_id |-> read_uint16(data, position).value,
                    segment_type |-> read_uint16(data, position + 2).value,
                    segment_address |-> read_uint16(data, position + 4).value,
                    params_num |-> params_num,
                    values |-> IF fits THEN Slice(data, position1, position1 + value_bytes)
                               ELSE <<>>]))

\* esy_inverter_protocol.py, PayloadParser.parse_params_list
parse_params_list(data) ==
  IF data = <<>> THEN [segment_count |-> 0, segments |-> <<>>]
  ELSE LET c == read_uint16(data, 0) IN
       [segment_count |-> c.value,
        segments |-> params_list_segments(data, c.position, c.value, <<>>)]

\* ------------------------------------------------ codec inputs and steps
MaxSegments == 2      \* segments declared by one payload

\* a segment as the device encodes it: id, type (function code), start
\* address and one 16-bit word per register
Segment(id, type, address, words) ==
  [segment_id |-> id, segment_type |-> type, segment_address |-> address, words |-> words]

RECURSIVE words_bytes(_)
words_bytes(words) ==
  IF words = <<>> THEN <<>> ELSE pack_H(Head(words)) \o words_bytes(Tail(words))

\* one segment on the wire: four 16-bit fields, then params_num * 2 bytes
segment_bytes(s) ==
  pack_H(s.segment_id) \o pack_H(s.segment_type) \o pack_H(s.segment_address)
    \o pack_H(Len(s.words)) \o words_bytes(s.words)

RECURSIVE segments_bytes(_)
segments_bytes(segs) ==
  IF segs = <<>> THEN <<>> ELSE segment_bytes(Head(segs)) \o segments_bytes(Tail(segs))

\* a payload on the wire: the 16-bit segment count, then the segments
payload_bytes(count, segs) == pack_H(count) \o segments_bytes(segs)

SeqsUpTo(S, n) == UNION {[1..k -> S] : k \in 0..n}

Headers ==
  [config_id : {0, 6, 2147483647},
   msg_id : {0, 1700000000},
   user_id : {<<0, 0, 0, 0, 0, 0, 0, 0>>, <<1, 2, 3, 4, 5, 6, 7, 255>>},
   fun_code : {3, 32},
   source_id : {0, 1, 16, 255},
   page_index : {0, 1, 255},
   data_length : {0, 8, 65535}]
ShortLengths == {0, 1, HEADER_SIZE - 1}

CodecSegments ==
  {Segment(1, 4, 5, <<1, 5>>), Segment(2, 3, 57, <<65486>>), Segment(3, 4, 100, <<>>)}

\* one call on a fresh codec: MsgHeader.to_bytes then MsgHeader.from_bytes
\* of both implementations, and from_bytes of the first n bytes only
header_codec(h, n) ==
  /\ io = <<>>
  /\ io' = [op |-> "header", h |-> h, n |-> n,
            encoded |-> MsgHeader_to_bytes(h),
            decoded |-> MsgHeader_from_bytes(MsgHeader_to_bytes(h)),
            short |-> MsgHeader_from_bytes(Slice(MsgHeader_to_bytes(h), 0, n)),
            inverter_encoded |-> inverter_MsgHeader_to_bytes(h),
            inverter_decoded |-> inverter_MsgHeader_from_bytes(inverter_MsgHeader_to_bytes(h)),
            inverter_short |->
              inverter_MsgHeader_from_bytes(Slice(inverter_MsgHeader_to_bytes(h), 0, n))]
  /\ UNCHANGED <<svars, protocol, configured_mode, last_data, cvars, dvars>>

\* PayloadParser.parse and PayloadParser.parse_params_list on the first n
\* bytes of a payload that declares `count` segments and encodes `segs`
payload_codec(count, segs, n) ==
  LET payload == Slice(payload_bytes(count, segs), 0, n) IN
  /\ io = <<>>
  /\ io' = [op |-> "payload", count |-> count, declared |-> segs, payload |-> payload,
            segments |-> PayloadParser_parse(payload),
            params_list |-> parse_params_list(payload)]
  /\ UNCHANGED <<svars, protocol, configured_mode, last_data, cvars, dvars>>

CodecNext ==
  \/ \E h \in Headers, n \in ShortLengths : header_codec(h, n)
  \/ \E segs \in SeqsUpTo(CodecSegments, MaxSegments) :
       \E count \in 0..(Len(segs) + 1), n \in 0..Len(payload_bytes(0, segs)) :
         payload_codec(count, segs, n)

CodecSpec == Init /\ [][CodecNext]_vars

\* -------------------------------------------------------- C13 and C14
\* C13: header round trip: encode(h) is exactly 24 bytes and
\* decode(encode(h)) = h field by field, and decode of fewer than 24 bytes
\* reports failure; for the header codec of protocol.py and for the one of
\* esy_inverter_protocol.py.
C13_HeaderRoundTrip ==
  io # <<>> /\ io.op = "header" =>
    /\ Len(io.encoded) = HEADER_SIZE
    /\ io.decoded = Some(io.h)
    /\ io.short = NoneResult
    /\ Len(io.inverter_encoded) = HEADER_SIZE
    /\ io.inverter_decoded = Some(io.h)
    /\ io.inverter_short = NoneResult

\* the segments of segs[1..k] as a parser returns them
Returned(segs, k) ==
  [i \in 1..k |-> [segment_id |-> segs[i].segment_id,
                    segment_type |-> segs[i].segment_type,
                    segment_address |-> segs[i].segment_address,
                    params_num |-> Len(segs[i].words),
                    values |-> words_bytes(segs[i].words)]]

\* how many of the declared segments are fully inside the first n bytes
Readable(count, segs, n) ==
  LET m == IF count < Len(segs) THEN count ELSE Len(segs)
      fit == {k \in 0..m : k = 0 \/ Len(payload_bytes(count, SubSeq(segs, 1, k))) <= n}
  IN CHOOSE k \in fit : \A j \in fit : j <= k

\* C14: payload decode returns, in order, exactly the longest prefix of the
\* declared segments that is fully readable: at most `count` segments, each
\* with exactly paramCount * 2 value bytes; for PayloadParser.parse of
\* protocol.py and for parse_params_list of esy_inverter_protocol.py.
C14_LongestReadablePrefix ==
  io # <<>> /\ io.op = "payload" =>
    LET want == Returned(io.declared, Readable(io.count, io.declared, Len(io.payload))) IN
    /\ io.segments = want
    /\ io.params_list.segments = want
    /\ \A i \in 1..Len(io.params_list.segments) :
         Len(io.params_list.segments[i].values) = 2 * io.params_list.segments[i].params_num

\* ======================================================================
\* The register registry (protocol_api.py) and the decoder of a frame into
\* named values (protocol.py, DynamicTelemetryParser)
\* ======================================================================
DATA_TYPE_UNSIGNED == "unsigned"
DATA_TYPE_SIGNED == "signed"
FC_READ_HOLDING == 3
FC_READ_INPUT == 4

\* A coefficient is the rational <<numerator, denominator>>.  A value scaled
\* by an integral coefficient is an integer; a value scaled by a fractional
\* one is round(raw * coefficient, 3), held as its number of thousandths.
Coeff(num, den) == <<num, den>>
One == Coeff(1, 1)

\* ProtocolAPI._get_fallback_protocol: (address, dataKey, dataType, coefficient)
fallback_input_regs ==
  {<<5, "systemRunMode", DATA_TYPE_UNSIGNED, One>>,
   <<6, "patternMode", DATA_TYPE_UNSIGNED, One>>,
   <<7, "dcdcTemperature", DATA_TYPE_SIGNED, Coeff(1, 10)>>,
   <<10, "dailyEnergyGeneration", DATA_TYPE_UNSIGNED, Coeff(1, 1000)>>,
   <<12, "totalEnergyGeneration", DATA_TYPE_UNSIGNED, Coeff(1, 1000)>>,
   <<14, "ratedPower", DATA_TYPE_SIGNED, Coeff(100, 1)>>,
   <<20, "pv1voltage", DATA_TYPE_SIGNED, Coeff(1, 10)>>,
   <<21, "pv1current", DATA_TYPE_SIGNED, Coeff(1, 10)>>,
   <<22, "pv1Power", DATA_TYPE_SIGNED, One>>,
   <<23, "pv2voltage", DATA_TYPE_SIGNED, Coeff(1, 10)>>,
   <<24, "pv2current", DATA_TYPE_SIGNED, Coeff(1, 10)>>,
   <<25, "pv2Power", DATA_TYPE_SIGNED, One>>,
   <<28, "batteryStatus", DATA_TYPE_UNSIGNED, One>>,
   <<29, "batteryVoltage", DATA_TYPE_SIGNED, Coeff(1, 10)>>,
   <<30, "batteryCurrent", DATA_TYPE_SIGNED, Coeff(1, 10)>>,
   <<31, "batteryPower", DATA_TYPE_SIGNED, One>>,
   <<32, "battTotalSoc", DATA_TYPE_SIGNED, One>>,
   <<39, "gridFreq", DATA_TYPE_SIGNED, Coeff(1, 100)>>,
   <<42, "gridVolt", DATA_TYPE_SIGNED, Coeff(1, 10)>>,
   <<46, "gridActivePower", DATA_TYPE_SIGNED, One>>,
   <<49, "ct1Power", DATA_TYPE_SIGNED, One>>,
   <<52, "invTemperature", DATA_TYPE_SIGNED, Coeff(1, 10)>>,
   <<56, "ct2Power", DATA_TYPE_SIGNED, One>>,
   <<71, "energyFlowPvTotalPower", DATA_TYPE_SIGNED, Coeff(10, 1)>>,
   <<72, "energyFlowBattPower", DATA_TYPE_SIGNED, Coeff(10, 1)>>,
   <<73, "energyFlowGridPower", DATA_TYPE_SIGNED, Coeff(10, 1)>>,
   <<74, "energyFlowLoadTotalPower", DATA_TYPE_SIGNED, Coeff(10, 1)>>,
   <<84, "loadActivePower", DATA_TYPE_SIGNED, One>>,
   <<90, "loadRealTimePower", DATA_TYPE_SIGNED, One>>,
   <<104, "meterPower", DATA_TYPE_SIGNED, One>>,
   <<126, "dailyPowerConsumption", DATA_TYPE_UNSIGNED, Coeff(1, 1000)>>,
   <<128, "dailyGridConnectionPower", DATA_TYPE_UNSIGNED, Coeff(1, 1000)>>,
   <<136, "dailyBattChargeEnergy", DATA_TYPE_UNSIGNED, Coeff(1, 1000)>>,
   <<140, "dailyBattDischargeEnergy", DATA_TYPE_UNSIGNED, Coeff(1, 1000)>>,
   <<290, "batterySoc", DATA_TYPE_UNSIGNED, One>>,
   <<291, "batterySoh", DATA_TYPE_UNSIGNED, One>>}

fallback_holding_regs ==
  {<<57, "patternMode", DATA_TYPE_UNSIGNED, One>>,
   <<196, "runModeSet0h", DATA_TYPE_UNSIGNED, One>>,
   <<197, "runModeSet1h", DATA_TYPE_UNSIGNED, One>>,
   <<219, "runModeSet23h", DATA_TYPE_UNSIGNED, One>>}

\* RegisterDefinition(address, data_key, data_type, coefficient, unit,
\* data_length, function_code); the unit is not modelled
RegisterDefinition(t, data_length, function_code) ==
  [address |-> t[1], data_key |-> t[2], data_type |-> t[3], coefficient |-> t[4],
   data_length |-> data_length, function_code |-> function_code]

\* the dict {address: RegisterDefinition} built from a table, every
\* register with the same dataLength
registers(table, data_length, function_code) ==
  [a \in {t[1] : t \in table} |->
     RegisterDefinition(CHOOSE t \in table : t[1] = a, data_length, function_code)]

\* ProtocolAPI._get_fallback_protocol
fallback_protocol ==
  [config_id |-> 6,
   input_registers |-> registers(fallback_input_regs, 2, FC_READ_INPUT),
   holding_registers |-> registers(fallback_holding_regs, 2, FC_READ_HOLDING)]

\* ProtocolAPI.get_protocol_definition for an API answer that lists the
\* fallback registers and gives the energy counters (addresses 10 and 12,
\* each followed by a free address) dataLength 4: _parse_register stores
\* reg_data.get("dataLength", 2) in data_length
api_protocol ==
  [fallback_protocol EXCEPT
     !.input_registers[10].data_length = 4,
     !.input_registers[12].data_length = 4]

\* the protocol variable names the definition in use
Protocols == {None, "fallback", "api"}
ProtocolDefinition(name) == IF name = "api" THEN api_protocol ELSE fallback_protocol

\* RegisterDefinition.is_32bit
is_32bit(reg) == reg.data_length = 4

\* ProtocolDefinition.get_register
get_register(p, address, function_code) ==
  IF function_code = FC_READ_INPUT
  THEN IF address \in DOMAIN p.input_registers
       THEN Some(p.input_registers[address]) ELSE NoneResult
  ELSE IF function_code = FC_READ_HOLDING
  THEN IF address \in DOMAIN p.holding_registers
       THEN Some(p.holding_registers[address]) ELSE NoneResult
  ELSE NoneResult

\* DynamicTelemetryParser._legacy_key_map
legacy_key_map ==
  [k \in {"battTotalSoc", "ct1Power", "loadRealTimePower", "gridFreq", "gridVolt",
          "invTemperature", "pv1voltage", "pv1current", "pv2voltage", "pv2current",
          "dailyEnergyGeneration", "totalEnergyGeneration", "dailyPowerConsumption",
          "dailyBattChargeEnergy", "dailyBattDischargeEnergy",
          "dailyGridConnectionPower", "energyFlowPvTotalPower", "energyFlowBattPower",
          "energyFlowGridPower", "energyFlowLoadTotalPower"} |->
     CASE k = "battTotalSoc" -> "batterySoc"
       [] k = "ct1Power" -> "gridPower"
       [] k = "loadRealTimePower" -> "loadPower"
       [] k = "gridFreq" -> "gridFrequency"
       [] k = "gridVolt" -> "gridVoltage"
       [] k = "invTemperature" -> "inverterTemp"
       [] k = "pv1voltage" -> "pv1Voltage"
       [] k = "pv1current" -> "pv1Current"
       [] k = "pv2voltage" -> "pv2Voltage"
       [] k = "pv2current" -> "pv2Current"
       [] k = "dailyEnergyGeneration" -> "dailyPowerGeneration"
       [] k = "totalEnergyGeneration" -> "totalPowerGeneration"
       [] k = "dailyPowerConsumption" -> "dailyConsumption"
       [] k = "dailyBattChargeEnergy" -> "dailyBattCharge"
       [] k = "dailyBattDischargeEnergy" -> "dailyBattDischarge"
       [] k = "dailyGridConnectionPower" -> "dailyGridExport"
       [] k = "energyFlowPvTotalPower" -> "energyFlowPv"
       [] k = "energyFlowBattPower" -> "energyFlowBatt"
       [] k = "energyFlowGridPower" -> "energyFlowGrid"
       [] k = "energyFlowLoadTotalPower" -> "energyFlowLoad"]

\* d[k] = v on a dict, and d.update(e)
Put(d, k, v) == (k :> v) @@ d
update(d, e) == e @@ d

\* a scaling that multiplies by the coefficient rounded to one decimal
\* place less than the coefficient has
scaled_drifting(raw_value, coefficient) ==
  IF coefficient[2] = 1 THEN raw_value * coefficient[1]
  ELSE ((raw_value * coefficient[1] * 10) \div coefficient[2]) * 100

\* round(raw_value * reg.coefficient, 3)
scaled(raw_value, coefficient) ==
  IF coefficient[2] = 1 THEN raw_value * coefficient[1]
  ELSE (raw_value * coefficient[1] * 1000) \div coefficient[2]

\* f"_unknown_fc{fc}_addr{abs_addr}"
unknown_key(fc, abs_addr) ==
  "_unknown_fc" \o ToString(fc) \o "_addr" \o ToString(abs_addr)

\* a decoder that reads every word as unsigned
decode_value_unsigned(reg, raw_unsigned) ==
  IF reg.coefficient # One THEN scaled(raw_unsigned, reg.coefficient) ELSE raw_unsigned

\* _build_telemetry_data, a register with a definition: data type, then
\* coefficient (238-248)
decode_value(reg, raw_unsigned) ==
  LET raw_value == IF reg.data_type = DATA_TYPE_SIGNED /\ raw_unsigned > 32767
                   THEN raw_unsigned - 65536 ELSE raw_unsigned
  IN IF reg.coefficient # One THEN scaled(raw_value, reg.coefficient) ELSE raw_value

\* a decoder that records undefined words whatever their value
store_unknown_always(all_values, fc, abs_addr, raw_unsigned) ==
  Put(all_values, unknown_key(fc, abs_addr), raw_unsigned)

\* _build_telemetry_data, a register without a definition (259-262)
store_unknown(all_values, fc, abs_addr, raw_unsigned) ==
  IF raw_unsigned # 0
  THEN Put(all_values, unknown_key(fc, abs_addr), raw_unsigned)
  ELSE all_values

\* _build_telemetry_data: the loop over one segment's registers (223-262),
\* from index i on
RECURSIVE decode_registers(_, _, _, _)
decode_registers(p, segment, i, all_values) ==
  IF i >= segment.params_num \/ i * 2 + 2 > Len(segment.values) THEN all_values
  ELSE LET abs_addr == segment.segment_address + i
           fc == segment.segment_type
           raw_unsigned == word_at(segment.values, i * 2)
           reg == IF p # None THEN get_register(ProtocolDefinition(p), abs_addr, fc)
                  ELSE NoneResult
           stored ==
             IF reg # NoneResult
             THEN LET value == decode_value(reg[1], raw_unsigned)
                      v1 == Put(all_values, reg[1].data_key, value)
                  IN IF reg[1].data_key \in DOMAIN legacy_key_map
                     THEN Put(v1, legacy_key_map[reg[1].data_key], value) ELSE v1
             ELSE store_unknown(all_values, fc, abs_addr, raw_unsigned)
       IN decode_registers(p, segment, i + 1, stored)

\* _build_telemetry_data: the loop over the segments (216-262)
RECURSIVE decode_segments(_, _, _)
decode_segments(p, segments, all_values) ==
  IF segments = <<>> THEN all_values
  ELSE decode_segments(p, Tail(segments), decode_registers(p, Head(segments), 0, all_values))

\* DynamicTelemetryParser._build_telemetry_data
build_telemetry_data(p, segments, header) ==
  decode_segments(p, segments,
    ("_configId" :> header.config_id) @@ ("_pageIndex" :> header.page_index)
      @@ ("_funCode" :> header.fun_code) @@ ("_segmentCount" :> Len(segments)))

\* ------------------------------------------------ derived telemetry
\* values.get(k, 0) or 0, values.get(k) or 0: absent, None and 0 all give 0
get_or_0(values, k) == IF k \in DOMAIN values /\ values[k] # 0 THEN values[k] ELSE 0
\* Python's `a or b` on numbers
or(a, b) == IF a # 0 THEN a ELSE b
abs(x) == IF x < 0 THEN -x ELSE x
max(a, b) == IF a > b THEN a ELSE b

\* MODE_NAMES.get(display_mode, f"Unknown Mode ({display_mode})")
MODE_NAMES_get(mode) ==
  IF mode \in DOMAIN MODE_NAMES THEN MODE_NAMES[mode]
  ELSE "Unknown Mode (" \o ToString(mode) \o ")"

\* a PV derivation that counts DC + AC whenever either is non-zero
derived_pv_nonzero(values) ==
  LET pv1 == get_or_0(values, "pv1Power")
      pv2 == get_or_0(values, "pv2Power")
      dc_pv_power == pv1 + pv2
      ac_pv_power == max(0, get_or_0(values, "ct2Power"))
      total_pv_power == IF dc_pv_power # 0 \/ ac_pv_power # 0
                        THEN dc_pv_power + ac_pv_power
                        ELSE get_or_0(values, "energyFlowPvTotalPower")
  IN [pvPower |-> total_pv_power,
      dcPvPower |-> dc_pv_power,
      acPvPower |-> ac_pv_power,
      pv1Power |-> pv1,
      pv2Power |-> pv2,
      pvLine |-> IF total_pv_power > 10 THEN 1 ELSE 0]

\* _compute_derived_values, PV POWER (270-300)
derived_pv(values) ==
  LET pv1 == get_or_0(values, "pv1Power")
      pv2 == get_or_0(values, "pv2Power")
      dc_pv_power == pv1 + pv2
      ct2_power == get_or_0(values, "ct2Power")
      ac_pv_power == max(0, ct2_power)
      energy_flow_pv == get_or_0(values, "energyFlowPvTotalPower")
      total_pv_power == IF dc_pv_power > 0 \/ ac_pv_power > 0
                        THEN dc_pv_power + ac_pv_power
                        ELSE energy_flow_pv
  IN [pvPower |-> total_pv_power,
      dcPvPower |-> dc_pv_power,
      acPvPower |-> ac_pv_power,
      pv1Power |-> pv1,
      pv2Power |-> pv2,
      pvLine |-> IF total_pv_power > 10 THEN 1 ELSE 0]

\* a source selection that takes the secondary CT whatever its sign
select_grid_power_any_ct2(ct1_power, ct2_power, grid_active_power, energy_flow_grid) ==
  IF abs(ct1_power) > 10 THEN ct1_power
  ELSE IF abs(grid_active_power) > 10 THEN grid_active_power
  ELSE IF abs(energy_flow_grid) > 10 THEN energy_flow_grid
  ELSE IF abs(ct2_power) > 10 THEN ct2_power
  ELSE or(ct1_power, or(grid_active_power, energy_flow_grid))

\* _compute_derived_values, GRID POWER: the choice of the source (320-337)
select_grid_power(ct1_power, ct2_power, grid_active_power, energy_flow_grid) ==
  IF abs(ct1_power) > 10 THEN ct1_power
  ELSE IF abs(grid_active_power) > 10 THEN grid_active_power
  ELSE IF abs(energy_flow_grid) > 10 THEN energy_flow_grid
  ELSE IF ct2_power < -10 THEN ct2_power
  ELSE or(ct1_power, or(grid_active_power, energy_flow_grid))

\* a grid derivation that keeps the sign of the device
derived_grid_unflipped(values) ==
  LET grid_power == select_grid_power(get_or_0(values, "ct1Power"),
                                      get_or_0(values, "ct2Power"),
                                      get_or_0(values, "gridActivePower"),
                                      or(get_or_0(values, "energyFlowGridPower"),
                                         get_or_0(values, "energyFlowGrid")))
  IN [gridPower |-> grid_power,
      gridImport |-> IF grid_power < 0 THEN abs(grid_power) ELSE 0,
      gridExport |-> IF grid_power > 0 THEN grid_power ELSE 0,
      gridLine |-> IF grid_power # 0 THEN 1 ELSE 0]

\* _compute_derived_values, GRID POWER (305-358)
derived_grid(values) ==
  LET ct1_power == get_or_0(values, "ct1Power")
      ct2_power == get_or_0(values, "ct2Power")
      grid_active_power == get_or_0(values, "gridActivePower")
      energy_flow_grid == or(get_or_0(values, "energyFlowGridPower"),
                             get_or_0(values, "energyFlowGrid"))
      grid_power == select_grid_power(ct1_power, ct2_power, grid_active_power,
                                      energy_flow_grid)
  IN [gridPower |-> -grid_power,
      gridImport |-> IF grid_power < 0 THEN abs(grid_power) ELSE 0,
      gridExport |-> IF grid_power > 0 THEN grid_power ELSE 0,
      gridLine |-> IF grid_power # 0 THEN 1 ELSE 0]

\* a direction taken from the sign of the raw power
battery_direction_by_sign(raw_batt_power, battery_status) ==
  [is_charging |-> raw_batt_power > 0, is_discharging |-> raw_batt_power < 0,
   status_text |-> IF raw_batt_power > 0 THEN "Charging"
                   ELSE IF raw_batt_power < 0 THEN "Discharging" ELSE "Standby"]

\* _compute_derived_values, BATTERY POWER: charge/discharge from the status
\* code (384-413); the raw power is not consulted
battery_direction(raw_batt_power, battery_status) ==
  LET BATTERY_STATUS_TEXT ==
        [s \in {1, 2, 3, 6} |->
           CASE s = 1 -> "Charging" [] s = 2 -> "Charge Topping"
             [] s = 3 -> "Float Charge" [] s = 6 -> "Charging"]
  IN IF battery_status = 5
     THEN [is_charging |-> FALSE, is_discharging |-> TRUE, status_text |-> "Discharging"]
     ELSE IF battery_status \in {1, 2, 3, 6}
     THEN [is_charging |-> TRUE, is_discharging |-> FALSE,
           status_text |-> BATTERY_STATUS_TEXT[battery_status]]
     ELSE IF battery_status = 4
     THEN [is_charging |-> FALSE, is_discharging |-> FALSE, status_text |-> "Full"]
     ELSE [is_charging |-> FALSE, is_discharging |-> FALSE, status_text |-> "Standby"]

\* a derivation that keeps the status text of the code at zero power
standby_override_never(batt_power, battery_status, by_status) == by_status

\* _compute_derived_values, BATTERY POWER: zero power and a status other
\* than 4 is standby (418-422)
standby_override(batt_power, battery_status, by_status) ==
  IF batt_power = 0 /\ battery_status # 4
  THEN [is_charging |-> FALSE, is_discharging |-> FALSE, status_text |-> "Standby"]
  ELSE by_status

\* _compute_derived_values, BATTERY POWER (364-443)
derived_battery(values) ==
  LET raw_batt_power == or(get_or_0(values, "batteryPower"),
                           get_or_0(values, "energyFlowBatt"))
      battery_status == get_or_0(values, "batteryStatus")
      batt_power == abs(raw_batt_power)
      st == standby_override(batt_power, battery_status,
                             battery_direction(raw_batt_power, battery_status))
  IN [batteryPower |-> batt_power,
      batteryStatus |-> battery_status,
      batteryImport |-> IF ~(st.is_discharging /\ batt_power > 0)
                            /\ st.is_charging /\ batt_power > 0
                        THEN batt_power ELSE 0,
      batteryExport |-> IF st.is_discharging /\ batt_power > 0 THEN batt_power ELSE 0,
      batteryStatusText |-> st.status_text,
      batteryLine |-> IF st.is_discharging /\ batt_power > 0 THEN 1
                      ELSE IF st.is_charging /\ batt_power > 0 THEN 2 ELSE 0]

\* a state of charge stored as decoded
clamp_soc_never(soc) == soc

\* _compute_derived_values, BATTERY SOC: `if 0 <= soc <= 100` (461-464)
clamp_soc(soc) == IF 0 <= soc /\ soc <= 100 THEN soc ELSE 0

\* _compute_derived_values, LOAD POWER to VOLTAGE & FREQUENCY (448-485)
derived_load(values) ==
  LET load_power == or(get_or_0(values, "loadRealTimePower"),
                    or(get_or_0(values, "loadActivePower"),
                    or(get_or_0(values, "loadPower"),
                       get_or_0(values, "energyFlowLoad"))))
      soc == or(get_or_0(values, "battTotalSoc"), get_or_0(values, "batterySoc"))
  IN [loadPower |-> load_power,
      loadLine |-> IF load_power > 10 THEN 1 ELSE 0,
      batterySoc |-> clamp_soc(soc),
      batterySoh |-> get_or_0(values, "batterySoh"),
      inverterTemp |-> or(get_or_0(values, "invTemperature"),
                          get_or_0(values, "inverterTemp")),
      dcdcTemperature |-> get_or_0(values, "dcdcTemperature"),
      dailyPowerGeneration |-> or(get_or_0(values, "dailyEnergyGeneration"),
                                  get_or_0(values, "dailyPowerGeneration")),
      totalPowerGeneration |-> or(get_or_0(values, "totalEnergyGeneration"),
                                  get_or_0(values, "totalPowerGeneration")),
      dailyConsumption |-> or(get_or_0(values, "dailyPowerConsumption"),
                              get_or_0(values, "dailyConsumption")),
      dailyGridExport |-> or(get_or_0(values, "dailyGridConnectionPower"),
                             get_or_0(values, "dailyGridExport")),
      dailyBattCharge |-> or(get_or_0(values, "dailyBattChargeEnergy"),
                             get_or_0(values, "dailyBattCharge")),
      dailyBattDischarge |-> or(get_or_0(values, "dailyBattDischargeEnergy"),
                                get_or_0(values, "dailyBattDischarge")),
      gridVoltage |-> or(get_or_0(values, "gridVolt"), get_or_0(values, "gridVoltage")),
      gridFrequency |-> or(get_or_0(values, "gridFreq"), get_or_0(values, "gridFrequency")),
      batteryVoltage |-> get_or_0(values, "batteryVoltage"),
      batteryCurrent |-> get_or_0(values, "batteryCurrent")]

\* _compute_derived_values, SYSTEM MODE (504-529): `values.get("systemRunMode")
\* or 1` gives 1 for an absent register and for code 0
derived_mode(values) ==
  LET running_mode == IF get_or_0(values, "systemRunMode") # 0
                      THEN values["systemRunMode"] ELSE 1
      run_status == get_or_0(values, "systemRunStatus")
      display_mode_code == running_mode
  IN ("systemRunMode" :> running_mode) @@ ("systemRunStatus" :> run_status)
       @@ ("patternMode" :> running_mode)
       @@ ("code" :> MODE_NAMES_get(display_mode_code))
       @@ ("_modeCode" :> display_mode_code) @@ ("_runningModeCode" :> running_mode)

\* _compute_derived_values, RATED POWER to ENERGY FLOW (534-551)
derived_meter(values) ==
  LET rated == get_or_0(values, "ratedPower") IN
  [ratedPower |-> IF 10 < rated /\ rated < 200 THEN rated * 100 ELSE rated,
   ct1Power |-> get_or_0(values, "ct1Power"),
   ct2Power |-> get_or_0(values, "ct2Power"),
   meterPower |-> get_or_0(values, "meterPower"),
   energyFlowPv |-> or(get_or_0(values, "energyFlowPvTotalPower"),
                       get_or_0(values, "energyFlowPv")),
   energyFlowBatt |-> or(get_or_0(values, "energyFlowBattPower"),
                         get_or_0(values, "energyFlowBatt")),
   energyFlowGrid |-> or(get_or_0(values, "energyFlowGridPower"),
                         get_or_0(values, "energyFlowGrid")),
   energyFlowLoad |-> or(get_or_0(values, "energyFlowLoadTotalPower"),
                         get_or_0(values, "energyFlowLoad"))]

\* DynamicTelemetryParser._compute_derived_values: result = dict(values),
\* then every derived key is assigned from `values`
compute_derived_values(values) ==
  derived_meter(values) @@ derived_mode(values) @@ derived_load(values)
    @@ derived_battery(values) @@ derived_grid(values) @@ derived_pv(values) @@ values

\* DynamicTelemetryParser.parse_message, and with it the values that
\* _build_telemetry_data returned
parse_message_steps(p, data) ==
  IF Len(data) < HEADER_SIZE
  THEN [header |-> NoneResult, segments |-> <<>>, values |-> <<>>, result |-> NoneResult]
  ELSE LET header == MsgHeader_from_bytes(data)[1]
           payload == Slice(data, HEADER_SIZE, HEADER_SIZE + header.data_length)
           segments == PayloadParser_parse(payload)
           values == build_telemetry_data(p, segments, header)
       IN [header |-> Some(header), segments |-> segments, values |-> values,
           result |-> Some(compute_derived_values(values))]

parse_message(p, data) == parse_message_steps(p, data).result

\* ------------------------------------------------ frames and messages
MaxRunModeCode == 8   \* frames carry running-mode codes 0..MaxRunModeCode

\* a telemetry frame as received: the header declares the length of the
\* whole payload, and the last `cut` bytes did not arrive
Frame(segs, cut) ==
  LET payload == payload_bytes(Len(segs), segs)
      header == [config_id |-> 6, msg_id |-> 1,
                 user_id |-> <<0, 0, 0, 0, 0, 0, 0, 0>>,
                 fun_code |-> 32, source_id |-> 0, page_index |-> 0,
                 data_length |-> Len(payload)]
      whole == MsgHeader_to_bytes(header) \o payload
  IN Slice(whole, 0, Len(whole) - cut)

\* the sub-sequences of at most n elements of a sequence of segments
RECURSIVE Pick(_, _)
Pick(segs, idx) ==
  IF idx = {} THEN <<>>
  ELSE LET i == CHOOSE i \in idx : \A j \in idx : i <= j
       IN <<segs[i]>> \o Pick(segs, idx \ {i})
SubSeqsUpTo(segs, n) ==
  {Pick(segs, idx) : idx \in {x \in SUBSET (1..Len(segs)) : Cardinality(x) <= n}}

\* the running-mode register (input 5) with the pattern-mode register (6)
ModeSegments ==
  {Segment(1, FC_READ_INPUT, 5, <<r, p>>) : r \in 0..MaxRunModeCode, p \in {1, 5}}

\* 16-bit words of a positive, a zero and a negative reading
PowerWords == {0, 300, 65336}
\* pv1Power (22), pv2Power (25), ct2Power (56), energyFlowPvTotalPower (71),
\* each register in a segment of its own, present or not
PvFrames ==
  {Frame(a \o b \o c \o d, 0) :
     a \in {<<>>} \cup {<<Segment(2, FC_READ_INPUT, 22, <<w>>)>> : w \in PowerWords},
     b \in {<<>>} \cup {<<Segment(3, FC_READ_INPUT, 25, <<w>>)>> : w \in PowerWords},
     c \in {<<>>} \cup {<<Segment(4, FC_READ_INPUT, 56, <<w>>)>> : w \in {0, 150, 65496}},
     d \in {<<>>} \cup {<<Segment(5, FC_READ_INPUT, 71, <<w>>)>> : w \in {0, 10}}}

\* segments over defined and undefined addresses of both address spaces
RegisterSegments ==
  <<Segment(1, FC_READ_INPUT, 28, <<65486, 50, 0, 65486, 50>>),
    Segment(2, FC_READ_INPUT, 5, <<3, 5, 65486>>),
    Segment(3, FC_READ_INPUT, 100, <<50, 0, 65486>>),
    Segment(4, FC_READ_HOLDING, 5, <<7>>),
    Segment(5, FC_READ_HOLDING, 195, <<4, 5>>),
    Segment(6, FC_READ_INPUT, 10, <<1, 2>>),
    Segment(7, 1, 5, <<3>>)>>

\* ct1Power (49), gridActivePower (46), energyFlowGridPower (73, in tens)
\* and ct2Power (56), each in a segment of its own, present or not, with
\* readings on both sides of the noise threshold and of zero
GridFrames ==
  {Frame(a \o b \o c \o d, 0) :
     a \in {<<>>} \cup {<<Segment(1, FC_READ_INPUT, 49, <<w>>)>> : w \in {5, 300, 65336}},
     b \in {<<>>} \cup {<<Segment(2, FC_READ_INPUT, 46, <<w>>)>> : w \in {65531, 400}},
     c \in {<<>>} \cup {<<Segment(3, FC_READ_INPUT, 73, <<w>>)>> : w \in {1, 65533}},
     d \in {<<>>} \cup {<<Segment(4, FC_READ_INPUT, 56, <<w>>)>> : w \in {150, 65386, 65531}}}

\* batteryStatus (28) to batteryPower (31) in one segment
BatteryStatusCodes == 0..7
BatterySegments ==
  {Segment(1, FC_READ_INPUT, 28, <<st, 0, 0, w>>) :
     st \in BatteryStatusCodes, w \in PowerWords}

\* battTotalSoc (32, signed) and batterySoc (290), in either order
SocSegmentLists ==
  {a \o b : a \in {<<>>} \cup {<<Segment(1, FC_READ_INPUT, 32, <<w>>)>> :
                                    w \in {0, 50, 100, 101, 65531}},
            b \in {<<>>} \cup {<<Segment(2, FC_READ_INPUT, 290, <<w>>)>> :
                                    w \in {0, 60, 150}}}
    \cup {<<Segment(2, FC_READ_INPUT, 290, <<60>>), Segment(1, FC_READ_INPUT, 32, <<0>>)>>}

ParserFrames ==
  {Frame(<<s>>, 0) : s \in ModeSegments} \cup PvFrames
    \cup {Frame(segs, 0) : segs \in SubSeqsUpTo(RegisterSegments, MaxSegments)}
    \cup GridFrames
    \cup {Frame(<<s>>, 0) : s \in BatterySegments}
    \cup {Frame(segs, 0) : segs \in SocSegmentLists}

\* the protocol definition loaded and the configured mode fetched at start
Configs == {<<None, None>>, <<"fallback", None>>, <<"fallback", "5">>, <<"api", None>>}

\* CONFIGURED_MODE_NAMES.get(mode, f"Mode {mode}") of _process_telemetry
CONFIGURED_MODE_NAMES_get(mode) ==
  CASE mode = "1" -> "Regular Mode"
    [] mode = "2" -> "Emergency Mode"
    [] mode = "3" -> "Electricity Sell Mode"
    [] mode = "4" -> "Emergency Mode"
    [] mode = "5" -> "Battery Energy Management"
    [] mode = "6" -> "Battery Priority Mode"
    [] mode = "7" -> "Grid Priority Mode"
    [] mode = "8" -> "AC Charging Off Emergency"
    [] mode = "9" -> "PV Mode"
    [] mode = "10" -> "Forced Off Grid Mode"
    [] OTHER -> "Mode " \o mode

ConfigInit ==
  /\ self = InitSelf
  /\ last_code = None
  /\ pc = [r \in Requests |-> "idle"]
  /\ closure = [r \in Requests |-> [mode_name |-> None, mode_key |-> NoKey]]
  /\ nreq = 0
  /\ writes = [r \in Requests |-> 0]
  /\ out = NoOut
  /\ \E c \in Configs : protocol = c[1] /\ configured_mode = c[2]
  /\ last_data = <<>>
  /\ io = <<>>
  /\ poll_msg_id = 0
  /\ mqtt_connected = FALSE
  /\ issued = <<>>
  /\ coordinator_data = <<>>
  /\ kept_view = <<>>

\* one call of DynamicTelemetryParser.parse_message on a fresh parser
parse_message_call(data) ==
  /\ io = <<>>
  /\ io' = [op |-> "parse", data |-> data] @@ parse_message_steps(protocol, data)
  /\ UNCHANGED <<svars, protocol, configured_mode, last_data, cvars, dvars>>

ParserNext == \E data \in ParserFrames : parse_message_call(data)

ParserSpec == ConfigInit /\ [][ParserNext]_vars

\* the keys with a leading underscore that the parser emits, for
\* registers up to address MaxAddress
MaxAddress == 400
UnderscoreKeys ==
  {"_configId", "_pageIndex", "_funCode", "_segmentCount", "_modeCode", "_runningModeCode"}
    \cup {unknown_key(fc, a) : fc \in {FC_READ_HOLDING, FC_READ_INPUT}, a \in 0..MaxAddress}

\* key.startswith("_")
startswith_underscore(key) == key \in UnderscoreKeys

\* TelemetryData.__init__: self._data = data keeps the dict itself, and
\* setattr copies the value of every key without a leading underscore.
\* A view is held as the attributes set at construction; its _data is
\* coordinator._last_data, the one dict every view is built on
TelemetryData(data) ==
  [key \in {k \in DOMAIN data : ~startswith_underscore(k)} |-> data[key]]

\* TelemetryData.get(key): self._data.get(key, None), read at call time
TelemetryData_get(live_data, key) ==
  IF key \in DOMAIN live_data THEN Some(live_data[key]) ELSE NoneResult

\* getattr(view, name): the instance attribute when __init__ set one,
\* otherwise __getattr__, self._data.get(name)
TelemetryData_getattr(view, live_data, name) ==
  IF name \in DOMAIN view THEN Some(view[name]) ELSE TelemetryData_get(live_data, name)

\* ESYSunhomeCoordinator._handle_message for a message on the UP or EVENT
\* topic: _process_telemetry merges the decoded frame into _last_data and
\* async_set_updated_data hands the snapshot to the entity's
\* _handle_coordinator_update
handle_message(data) ==
  LET steps == parse_message_steps(protocol, data) IN
  /\ io' = [op |-> "message", data |-> data] @@ steps
  /\ IF steps.result # NoneResult
     THEN LET parsed == steps.result[1]
              merged == IF configured_mode # None
                        THEN Put(Put(parsed, "configuredModeCode", configured_mode),
                                 "configuredMode", CONFIGURED_MODE_NAMES_get(configured_mode))
                        ELSE parsed
          IN /\ last_data' = update(last_data, merged)
             /\ last_code' = merged["code"]
             /\ Commit(handle_coordinator_update(World, merged["code"]), NoOut)
     ELSE UNCHANGED <<last_data, last_code, self, pc, out>>
  /\ coordinator_data' = IF steps.result # NoneResult
                         THEN TelemetryData(last_data') ELSE coordinator_data
  /\ UNCHANGED <<closure, nreq, writes, protocol, configured_mode, cvars, kept_view>>

\* frames of a device that reports mode, PV and unlisted registers in
\* separate segments, whole, with the last byte missing, and cut short
TelemetrySegmentLists ==
  {<<>>,
   <<Segment(1, FC_READ_INPUT, 5, <<3, 5>>)>>,
   <<Segment(1, FC_READ_INPUT, 5, <<1, 1>>)>>,
   <<Segment(2, FC_READ_INPUT, 22, <<300, 0, 0, 200>>)>>,
   <<Segment(1, FC_READ_INPUT, 5, <<3, 5>>), Segment(2, FC_READ_INPUT, 22, <<300, 0, 0, 200>>)>>,
   <<Segment(3, FC_READ_INPUT, 100, <<50, 0, 65486>>)>>,
   <<Segment(5, FC_READ_HOLDING, 56, <<4, 5>>)>>}
TelemetryFrames ==
  {Frame(segs, cut) : segs \in TelemetrySegmentLists, cut \in {0, 1, 30}}

TelemetryNext == \E data \in TelemetryFrames : handle_message(data)

TelemetrySpec == ConfigInit /\ [][TelemetryNext]_vars

\* frames of a device that reports the battery block and the two
\* state-of-charge registers, in any order and any number of times
BatteryTelemetryFrames ==
  {Frame(<<Segment(1, FC_READ_INPUT, 28, <<st, 0, 0, w>>)>>, 0) :
     st \in {2, 4, 5}, w \in {0, 300}}
    \cup {Frame(<<Segment(1, FC_READ_INPUT, 32, <<w>>)>>, 0) : w \in {50, 150, 65531}}
    \cup {Frame(<<Segment(2, FC_READ_INPUT, 290, <<w>>)>>, 0) : w \in {60, 200}}

BatteryTelemetryNext == \E data \in BatteryTelemetryFrames : handle_message(data)

BatteryTelemetrySpec == ConfigInit /\ [][BatteryTelemetryNext]_vars

\* ------------------------------------------------------ C11 and C12
\* the keys under which register definitions store decoded values
RegisterKeys == {t[2] : t \in fallback_input_regs \cup fallback_holding_regs}

\* C11: partial-update merge: handling a frame overwrites in the snapshot
\* only keys present in that frame; a register key the frame does not carry
\* keeps its previous value, after any sequence of frames.
C11_PartialUpdateMerge ==
  [][io'.op = "message" /\ io'.result # NoneResult =>
       \A k \in DOMAIN last_data \cap RegisterKeys :
         k \notin DOMAIN io'.values =>
           k \in DOMAIN last_data' /\ last_data'[k] = last_data[k]]_vars

\* a frame shorter than the header, or whose payload is shorter than the
\* dataLength its header declares (bytes 20..23, big-endian)
Malformed(data) ==
  \/ Len(data) < 24
  \/ Len(data) - 24 < ((data[21] * 256 + data[22]) * 256 + data[23]) * 256 + data[24]

\* C12: a malformed frame (shorter than the 24-byte header, or with a
\* payload truncated relative to dataLength) is discarded: the snapshot
\* after it is the snapshot before it.
C12_MalformedFrameDiscarded ==
  [][io'.op = "message" /\ Malformed(io'.data) => last_data' = last_data]_vars

\* -------------------------------------------------------- C15 to C17
\* the table rows for (function code, address): at most one
Definition(p, fc, address) ==
  IF p = None THEN {}
  ELSE {t \in (IF fc = 4 THEN fallback_input_regs
               ELSE IF fc = 3 THEN fallback_holding_regs ELSE {}) : t[1] = address}
\* the definition for (function code, address) is a double word
DoubleWord(p, fc, address) == p = "api" /\ fc = 4 /\ address \in {10, 12}
\* word i (from 0) of a parsed segment, and its two's-complement reading
Word(s, i) == s.values[2 * i + 1] * 256 + s.values[2 * i + 2]
Signed16(w) == ((w + 32768) % 65536) - 32768
\* v times a coefficient; in thousandths when the coefficient is a fraction
Times(v, c) == IF c[2] = 1 THEN v * c[1] ELSE v * c[1] * (1000 \div c[2])
\* the (segment, index) pairs of the frame just parsed
Slots == {<<n, i>> \in (1..Len(io.segments)) \X (0..4) : i < io.segments[n].params_num}
SlotFc(x) == io.segments[x[1]].segment_type
SlotAddr(x) == io.segments[x[1]].segment_address + x[2]
SlotWord(x) == Word(io.segments[x[1]], x[2])
UnknownKey(x) == "_unknown_fc" \o ToString(SlotFc(x)) \o "_addr" \o ToString(SlotAddr(x))
\* slot x holds the second word of a double-word register
SecondWord(x) == x[2] > 0 /\ DoubleWord(protocol, SlotFc(x), SlotAddr(x) - 1)

\* the keys a definition stores under: its own and its legacy alias
StoredKeys(t) ==
  {t[2]} \cup (IF t[2] \in DOMAIN legacy_key_map THEN {legacy_key_map[t[2]]} ELSE {})
\* a later register of the same frame stores under key again
StoredAgain(x, key) ==
  \E y \in Slots :
    /\ y[1] > x[1] \/ (y[1] = x[1] /\ y[2] > x[2])
    /\ \E u \in Definition(protocol, SlotFc(y), SlotAddr(y)) : key \in StoredKeys(u)

\* C15: each word i of a segment (start s, type t) is resolved against
\* (s+i, t); with a single-word definition the value under its key is the
\* raw word if unsigned and raw-65536 if signed and raw > 32767 (times the
\* coefficient); input (4) and holding (3) addresses resolve independently.
\* (Read on the decoded output: of the registers of one frame that store
\* under the same key, the last one.)
C15_SingleWordDecode ==
  io # <<>> /\ io.op = "parse" =>
    \A x \in Slots :
      \A t \in Definition(protocol, SlotFc(x), SlotAddr(x)) :
        (~DoubleWord(protocol, SlotFc(x), SlotAddr(x)) /\ ~StoredAgain(x, t[2])) =>
          /\ t[2] \in DOMAIN io.values
          /\ io.values[t[2]] =
               Times(IF t[3] = "signed" THEN Signed16(SlotWord(x)) ELSE SlotWord(x), t[4])

\* signed and unsigned words above 32767 decoded, and holding address 5
\* left unresolved while input address 5 is the running mode
C15_Witness ==
  /\ io # <<>> /\ io.op = "parse" /\ protocol = "fallback"
  /\ "batteryPower" \in DOMAIN io.values /\ io.values["batteryPower"] = -50
  /\ io.values["batteryStatus"] = 65486
  /\ "_unknown_fc3_addr5" \in DOMAIN io.values
  /\ "systemRunMode" \notin DOMAIN io.values

\* C16: with a double-word definition the decoder combines word i and word
\* i+1 into one 32-bit big-endian value and consumes both slots: the second
\* word is not decoded as a register of its own at address+1.
C16_DoubleWordDecode ==
  io # <<>> /\ io.op = "parse" =>
    \A x \in Slots :
      \A t \in Definition(protocol, SlotFc(x), SlotAddr(x)) :
        (DoubleWord(protocol, SlotFc(x), SlotAddr(x)) /\ <<x[1], x[2] + 1>> \in Slots) =>
          /\ io.values[t[2]] = Times(SlotWord(x) * 65536 + SlotWord(<<x[1], x[2] + 1>>), t[4])
          /\ UnknownKey(<<x[1], x[2] + 1>>) \notin DOMAIN io.values

\* C17: a word with no definition for (address, function code) is recorded
\* under the unknown key of its function code and address iff it is
\* non-zero, and it never halts parsing: every register of every segment
\* of the frame is still decoded.
C17_UnknownRegisters ==
  io # <<>> /\ io.op = "parse" =>
    \A x \in Slots :
      IF Definition(protocol, SlotFc(x), SlotAddr(x)) = {}
      THEN SecondWord(x) \/
           IF SlotWord(x) # 0
           THEN /\ UnknownKey(x) \in DOMAIN io.values
                /\ io.values[UnknownKey(x)] = SlotWord(x)
                /\ io.result[1][UnknownKey(x)] = SlotWord(x)
           ELSE UnknownKey(x) \notin DOMAIN io.result[1]
      ELSE \A t \in Definition(protocol, SlotFc(x), SlotAddr(x)) : t[2] \in DOMAIN io.values

\* an undefined non-zero word, an undefined zero word and another non-zero
\* one, followed by a segment whose defined register was still decoded
C17_Witness ==
  /\ io # <<>> /\ io.op = "parse" /\ protocol = "fallback"
  /\ "_unknown_fc4_addr100" \in DOMAIN io.values
  /\ io.values["_unknown_fc4_addr100"] = 50
  /\ "_unknown_fc4_addr101" \notin DOMAIN io.values
  /\ io.values["_unknown_fc4_addr102"] = 65486
  /\ "runModeSet0h" \in DOMAIN io.values /\ io.values["runModeSet0h"] = 5

\* -------------------------------------------------------- C18 to C20
\* C18: the mode name in the decoded output is the table's name for the code
\* c carried by the running-mode register, and a placeholder embedding c
\* for a code outside the table.
C18_ModeNameOfCode ==
  (io # <<>> /\ io.op = "parse" /\ "systemRunMode" \in DOMAIN io.values) =>
    LET c == io.values["systemRunMode"] IN
    io.result[1]["code"] =
      CASE c = 0 -> "Battery Priority Mode" [] c = 1 -> "Regular Mode"
        [] c = 2 -> "Grid Priority Mode" [] c = 3 -> "Electricity Sell Mode"
        [] c = 4 -> "Emergency Mode" [] c = 5 -> "Battery Energy Management"
        [] c = 6 -> "PV Mode" [] c = 7 -> "Forced Off Grid Mode"
        [] OTHER -> "Unknown Mode (" \o ToString(c) \o ")"

\* C19: when a frame carries running mode r and pattern mode p with p # r,
\* the snapshot afterwards has systemRunMode = r and patternMode = p.
C19_RunningAndPatternMode ==
  (/\ io # <<>> /\ io.op = "message"
   /\ "systemRunMode" \in DOMAIN io.values
   /\ "patternMode" \in DOMAIN io.values
   /\ io.values["patternMode"] # io.values["systemRunMode"]) =>
    /\ last_data["systemRunMode"] = io.values["systemRunMode"]
    /\ last_data["patternMode"] = io.values["patternMode"]

\* the inputs of the PV derivation, 0 when the frame does not carry them
PvInput(k) == IF k \in DOMAIN io.values THEN io.values[k] ELSE 0
DcPv == PvInput("pv1Power") + PvInput("pv2Power")
AcPv == IF PvInput("ct2Power") > 0 THEN PvInput("ct2Power") ELSE 0

\* C20 as claimed: dcPv = pv1 + pv2, acPv = max(0, ct2), and pvPower =
\* dcPv + acPv if either is non-zero, otherwise the aggregate PV field; for
\* every combination of signed inputs.
C20_PvDerivationNonZero ==
  io # <<>> /\ io.op = "parse" =>
    /\ io.result[1]["dcPvPower"] = DcPv
    /\ io.result[1]["acPvPower"] = AcPv
    /\ io.result[1]["pvPower"] =
         IF DcPv # 0 \/ AcPv # 0 THEN DcPv + AcPv ELSE PvInput("energyFlowPvTotalPower")

\* C20 as amended: pvPower = dcPv + acPv if dcPv or acPv is positive,
\* otherwise the aggregate PV field.
C20_PvDerivation ==
  io # <<>> /\ io.op = "parse" =>
    /\ io.result[1]["dcPvPower"] = DcPv
    /\ io.result[1]["acPvPower"] = AcPv
    /\ io.result[1]["pvPower"] =
         IF DcPv > 0 \/ AcPv > 0 THEN DcPv + AcPv ELSE PvInput("energyFlowPvTotalPower")

\* a negative DC sum with an aggregate reading: the aggregate is reported
C20_Witness ==
  /\ io # <<>> /\ io.op = "parse"
  /\ DcPv < 0 /\ AcPv = 0
  /\ PvInput("energyFlowPvTotalPower") = 100
  /\ io.result[1]["pvPower"] = 100

\* -------------------------------------------------------- C21 to C25
\* a decoded value of the frame just handled, 0 when the frame lacks it
In(k) == IF k \in DOMAIN io.values /\ io.values[k] # 0 THEN io.values[k] ELSE 0
\* the grid candidates in their order: primary CT, active grid power,
\* app-display aggregate; and those beyond the noise threshold
GridCandidates == <<In("ct1Power"), In("gridActivePower"), In("energyFlowGridPower")>>
Exceeding == {i \in 1..3 : GridCandidates[i] > 10 \/ GridCandidates[i] < -10}
FirstExceeding == GridCandidates[CHOOSE i \in Exceeding : \A j \in Exceeding : i <= j]
\* the raw reading the derivation selected
SelectedGrid == -io.result[1]["gridPower"]
Parsed == io # <<>> /\ io.op = "parse" /\ io.result # NoneResult

\* C21: the grid reading is the first of primary CT, active grid power and
\* app-display aggregate whose magnitude exceeds 10; the secondary CT is
\* taken only when it is negative, and a positive secondary CT is never
\* selected as, nor added to, grid power.
C21_GridSourceSelection ==
  Parsed =>
    /\ Exceeding # {} => SelectedGrid = FirstExceeding
    /\ SelectedGrid \notin {GridCandidates[i] : i \in 1..3} \cup {0} =>
         SelectedGrid = In("ct2Power") /\ In("ct2Power") < 0
    /\ In("ct2Power") > 0 =>
         /\ SelectedGrid \in {GridCandidates[i] : i \in 1..3} \cup {0}
         /\ SelectedGrid # In("ct2Power")

\* a positive secondary CT beyond the threshold next to a small primary CT
C21_Witness ==
  /\ Parsed /\ In("ct2Power") = 150 /\ In("ct1Power") = 5 /\ Exceeding = {}
  /\ io.result[1]["gridPower"] = -5

\* C22: gridPower is the negation of the selected raw reading (positive =
\* import); gridImport = max(gridPower, 0) and gridExport = max(-gridPower,
\* 0), so they are never both non-zero and gridImport - gridExport =
\* gridPower.
C22_GridSignConvention ==
  Parsed =>
    LET r == io.result[1]
        gp == r["gridPower"] IN
    /\ Exceeding # {} => gp = -FirstExceeding
    /\ r["gridImport"] = (IF gp > 0 THEN gp ELSE 0)
    /\ r["gridExport"] = (IF -gp > 0 THEN -gp ELSE 0)
    /\ ~(r["gridImport"] # 0 /\ r["gridExport"] # 0)
    /\ r["gridImport"] - r["gridExport"] = gp

\* a primary CT reading of -200 is an import of 200
C22_Witness ==
  /\ Parsed /\ In("ct1Power") = -200
  /\ io.result[1]["gridPower"] = 200 /\ io.result[1]["gridImport"] = 200
  /\ io.result[1]["gridExport"] = 0

\* the raw battery power and its magnitude
RawBatteryPower == IF In("batteryPower") # 0 THEN In("batteryPower") ELSE In("energyFlowBatt")
BatteryMagnitude == IF RawBatteryPower < 0 THEN -RawBatteryPower ELSE RawBatteryPower

Handled == io # <<>> /\ io.op = "message" /\ io.result # NoneResult

\* C24: zero battery power with a status other than 4 is standby (text
\* Standby, no import, no export, inactive battery line) whatever the
\* status code and whatever frames came before; zero power with status 4
\* stays Full.
C24_ZeroPowerStandby ==
  (Handled /\ BatteryMagnitude = 0) =>
    IF In("batteryStatus") # 4
    THEN /\ last_data["batteryStatusText"] = "Standby"
         /\ last_data["batteryImport"] = 0 /\ last_data["batteryExport"] = 0
         /\ last_data["batteryLine"] = 0
    ELSE last_data["batteryStatusText"] = "Full"

\* status 5 with zero power, handled after the state of charge of an
\* earlier frame was stored
C24_Witness ==
  /\ Handled /\ In("batteryStatus") = 5 /\ BatteryMagnitude = 0
  /\ "batteryStatus" \in DOMAIN io.values
  /\ "battTotalSoc" \in DOMAIN last_data /\ "battTotalSoc" \notin DOMAIN io.values
  /\ last_data["batteryStatusText"] = "Standby"

\* the decoded state of charge, battTotalSoc before batterySoc
DecodedSoc == IF In("battTotalSoc") # 0 THEN In("battTotalSoc") ELSE In("batterySoc")

\* C25: in every snapshot the state-of-charge field is within 0..100; a
\* decoded state of charge outside 0..100 is stored as 0, after any
\* sequence of frames.
C25_SocWithinRange ==
  /\ "batterySoc" \in DOMAIN last_data =>
       0 <= last_data["batterySoc"] /\ last_data["batterySoc"] <= 100
  /\ (Handled /\ (DecodedSoc < 0 \/ DecodedSoc > 100)) => last_data["batterySoc"] = 0

\* a state of charge of 200 in the second register, handled after a frame
\* that stored 50 from the first
C25_Witness ==
  /\ Handled /\ DecodedSoc = 200 /\ last_data["batterySoc"] = 0
  /\ "battTotalSoc" \in DOMAIN last_data /\ last_data["battTotalSoc"] = 50

\* ------------------------------------------------- ESYCommandBuilder
\* the default user_id of each builder: FF FF FF FF FF FF FC 14 for
\* build_write_command, FF FF FF FF FF FF FC 17 for the other two
build_write_command_user_id == <<255, 255, 255, 255, 255, 255, 252, 20>>
build_multi_write_command_user_id == <<255, 255, 255, 255, 255, 255, 252, 23>>
build_poll_request_user_id == <<255, 255, 255, 255, 255, 255, 252, 23>>

\* a builder that leaves the value count out of the payload
build_write_command_no_count(register_address, value, user_id, msg_id, config_id) ==
  LET payload == pack_H(1) \o pack_H(register_address) \o pack_H(value)
      header == [config_id |-> config_id, msg_id |-> msg_id,
                 user_id |-> build_write_command_user_id,
                 fun_code |-> 0, source_id |-> 16, page_index |-> 2048,
                 data_length |-> Len(payload)]
  IN MsgHeader_to_bytes(header) \o payload

\* ESYCommandBuilder.build_write_command; user_id = NoneResult is the
\* default argument
build_write_command(register_address, value, user_id, msg_id, config_id) ==
  LET uid == IF user_id = NoneResult THEN build_write_command_user_id ELSE user_id
      payload == pack_H(1) \o pack_H(register_address) \o pack_H(1) \o pack_H(value)
      header == [config_id |-> config_id, msg_id |-> msg_id, user_id |-> uid,
                 fun_code |-> 0, source_id |-> 16, page_index |-> 2048,
                 data_length |-> Len(payload)]
  IN MsgHeader_to_bytes(header) \o payload

\* a single integer value or a list of values of one write operation
IntValue(v) == <<"int", v>>
ListValue(vs) == <<"list", vs>>
\* a conversion that drops a single integer
as_list_dropping(values) == IF values[1] = "int" THEN <<>> ELSE values[2]

\* `if isinstance(values, int): values = [values]`
as_list(values) == IF values[1] = "int" THEN <<values[2]>> ELSE values[2]

\* the loop of build_multi_write_command over writes_list[i..]
RECURSIVE multi_write_groups(_, _)
multi_write_groups(writes_list, i) ==
  IF i > Len(writes_list) THEN <<>>
  ELSE LET addr == writes_list[i][1]
           values == as_list(writes_list[i][2])
       IN pack_H(addr) \o pack_H(Len(values)) \o words_bytes(values)
            \o multi_write_groups(writes_list, i + 1)

\* ESYCommandBuilder.build_multi_write_command
build_multi_write_command(writes_list, user_id, msg_id, config_id) ==
  LET uid == IF user_id = NoneResult THEN build_multi_write_command_user_id ELSE user_id
      payload == pack_H(Len(writes_list)) \o multi_write_groups(writes_list, 1)
      header == [config_id |-> config_id, msg_id |-> msg_id, user_id |-> uid,
                 fun_code |-> 0, source_id |-> 16, page_index |-> 2048,
                 data_length |-> Len(payload)]
  IN MsgHeader_to_bytes(header) \o payload

\* ESYCommandBuilder.build_poll_request: the header's config_id is 0
build_poll_request(segment_ids, msg_id, user_id) ==
  LET uid == IF user_id = NoneResult THEN build_poll_request_user_id ELSE user_id
      payload == pack_H(Len(segment_ids)) \o words_bytes(segment_ids)
      header == [config_id |-> 0, msg_id |-> msg_id, user_id |-> uid,
                 fun_code |-> 32, source_id |-> 16, page_index |-> 768,
                 data_length |-> Len(payload)]
  IN MsgHeader_to_bytes(header) \o payload

\* ------------------------- the builders, one call on inputs of 16 bits
MaxWrites == 2   \* a write-multiple command carries at most MaxWrites operations

WriteOperations ==
  {<<57, IntValue(5)>>, <<57, ListValue(<<5>>)>>, <<196, ListValue(<<4, 5>>)>>,
   <<196, ListValue(<<>>)>>, <<219, IntValue(65535)>>}
\* the same operations with every value given as a list
listed(writes_list) == [i \in 1..Len(writes_list) |-> <<writes_list[i][1], ListValue(as_list(writes_list[i][2]))>>]
MsgIds == {0, 1, 1700000000}
ConfigIds == {0, 6}

build_write_command_call(register_address, value, msg_id, config_id) ==
  /\ io = <<>>
  /\ io' = [op |-> "build_write_command", register_address |-> register_address,
            value |-> value, msg_id |-> msg_id, config_id |-> config_id,
            command |-> build_write_command(register_address, value, NoneResult,
                                            msg_id, config_id)]
  /\ UNCHANGED <<svars, protocol, configured_mode, last_data, cvars, dvars>>

build_multi_write_command_call(writes_list, msg_id, config_id) ==
  /\ io = <<>>
  /\ io' = [op |-> "build_multi_write_command", writes_list |-> writes_list,
            msg_id |-> msg_id, config_id |-> config_id,
            command |-> build_multi_write_command(writes_list, NoneResult, msg_id, config_id),
            command_listed |-> build_multi_write_command(listed(writes_list), NoneResult,
                                                         msg_id, config_id)]
  /\ UNCHANGED <<svars, protocol, configured_mode, last_data, cvars, dvars>>

build_poll_request_call(segment_ids, msg_id) ==
  /\ io = <<>>
  /\ io' = [op |-> "build_poll_request", segment_ids |-> segment_ids, msg_id |-> msg_id,
            command |-> build_poll_request(segment_ids, msg_id, NoneResult)]
  /\ UNCHANGED <<svars, protocol, configured_mode, last_data, cvars, dvars>>

BuilderNext ==
  \/ \E a \in {0, 57, 65535}, v \in {0, 5, 256, 65535}, m \in MsgIds, c \in ConfigIds :
       build_write_command_call(a, v, m, c)
  \/ \E w \in SeqsUpTo(WriteOperations, MaxWrites), m \in {1}, c \in ConfigIds :
       build_multi_write_command_call(w, m, c)
  \/ \E ids \in {<<>>, <<0, 1, 3, 6>>}, m \in MsgIds : build_poll_request_call(ids, m)

BuilderSpec == Init /\ [][BuilderNext]_vars

\* ------------------------------ the coordinator's outbound commands
MaxCommands == 3   \* commands built in one behaviour

\* coordinator._poll_segments
poll_segments == <<0, 1, 3, 6>>
\* int(time.time()) at the calls of set_mode_mqtt
Clock == {1700000000, 1700000001}
\* "Register 57 = systemRunMode / patternMode"
MODE_REGISTER == 57
\* `self.protocol.config_id if self.protocol else 0`
protocol_config_id == IF protocol = None THEN 0 ELSE ProtocolDefinition(protocol).config_id

\* _connect_mqtt, and the loss of the connection in _mqtt_loop
connect_mqtt ==
  /\ ~mqtt_connected
  /\ mqtt_connected' = TRUE
  /\ UNCHANGED <<svars, tvars, poll_msg_id, issued, dvars>>
mqtt_loop_disconnected ==
  /\ mqtt_connected
  /\ mqtt_connected' = FALSE
  /\ UNCHANGED <<svars, tvars, poll_msg_id, issued, dvars>>

\* ESYSunhomeCoordinator._send_poll_request; publish_ok: publish did not raise
send_poll_request(publish_ok) ==
  /\ Len(issued) < MaxCommands
  /\ IF ~mqtt_connected
     THEN /\ io' = [op |-> "send_poll_request", returned |-> FALSE]
          /\ UNCHANGED <<poll_msg_id, issued>>
     ELSE /\ poll_msg_id' = poll_msg_id + 1
          /\ issued' = Append(issued,
               [kind |-> "poll",
                command |-> build_poll_request(poll_segments, poll_msg_id', NoneResult)])
          /\ io' = [op |-> "send_poll_request", returned |-> publish_ok]
  /\ UNCHANGED <<svars, protocol, configured_mode, last_data, mqtt_connected, dvars>>

\* ESYSunhomeCoordinator.publish_command: what it returns
publish_command(publish_ok) == mqtt_connected /\ publish_ok

\* a write_register that reuses the current counter value
write_register_reusing_id(register_address, value, publish_ok) ==
  /\ Len(issued) < MaxCommands
  /\ poll_msg_id' = poll_msg_id
  /\ issued' = Append(issued,
       [kind |-> "write",
        command |-> build_write_command(register_address, value, NoneResult,
                                        poll_msg_id', protocol_config_id)])
  /\ io' = [op |-> "write_register", returned |-> publish_command(publish_ok)]
  /\ UNCHANGED <<svars, protocol, configured_mode, last_data, mqtt_connected, dvars>>

\* ESYSunhomeCoordinator.write_register
write_register(register_address, value, publish_ok) ==
  /\ Len(issued) < MaxCommands
  /\ poll_msg_id' = poll_msg_id + 1
  /\ issued' = Append(issued,
       [kind |-> "write",
        command |-> build_write_command(register_address, value, NoneResult,
                                        poll_msg_id', protocol_config_id)])
  /\ io' = [op |-> "write_register", returned |-> publish_command(publish_ok)]
  /\ UNCHANGED <<svars, protocol, configured_mode, last_data, mqtt_connected, dvars>>

\* ESYSunhomeCoordinator.write_registers
write_registers(writes_list, publish_ok) ==
  /\ Len(issued) < MaxCommands
  /\ poll_msg_id' = poll_msg_id + 1
  /\ issued' = Append(issued,
       [kind |-> "multi_write",
        command |-> build_multi_write_command(writes_list, NoneResult,
                                              poll_msg_id', protocol_config_id)])
  /\ io' = [op |-> "write_registers", returned |-> publish_command(publish_ok)]
  /\ UNCHANGED <<svars, protocol, configured_mode, last_data, mqtt_connected, dvars>>

\* ESYSunhomeCoordinator.set_mode_mqtt up to publish_command; now is
\* int(time.time())
set_mode_mqtt(mode_code, now, publish_ok) ==
  /\ Len(issued) < MaxCommands
  /\ issued' = Append(issued,
       [kind |-> "mode",
        command |-> build_write_command(MODE_REGISTER, mode_code, NoneResult,
                                        now, protocol_config_id)])
  /\ io' = [op |-> "set_mode_mqtt", returned |-> publish_command(publish_ok)]
  /\ UNCHANGED <<svars, protocol, configured_mode, last_data, poll_msg_id, mqtt_connected, dvars>>

CommandNext ==
  \/ connect_mqtt
  \/ mqtt_loop_disconnected
  \/ \E ok \in BOOLEAN : send_poll_request(ok)
  \/ \E ok \in BOOLEAN : write_register(196, 5, ok)
  \/ \E w \in {<<<<196, ListValue(<<4, 5>>)>>>>}, ok \in BOOLEAN : write_registers(w, ok)
  \/ \E now \in Clock, ok \in BOOLEAN : set_mode_mqtt(5, now, ok)

CommandSpec == ConfigInit /\ [][CommandNext]_vars

\* -------------------------------------------------------- C26 to C30
\* the header of the i-th command built, as the device decodes it
IssuedHeader(i) == MsgHeader_from_bytes(issued[i].command)[1]
CounterKinds == {"poll", "write", "multi_write"}
CounterCommands == {i \in 1..Len(issued) : issued[i].kind \in CounterKinds}

\* C26: poll, write-register and write-registers commands take their msgId
\* from one incremented counter: each one's msgId is greater than that of
\* every such command built before it, whether or not its publish failed;
\* a mode-change write carries a wall-clock id and leaves the counter alone.
C26_MonotonicMessageId ==
  /\ \A i, j \in CounterCommands :
       i < j => IssuedHeader(i).msg_id < IssuedHeader(j).msg_id
  /\ \A i \in 1..Len(issued) : issued[i].kind = "mode" => IssuedHeader(i).msg_id \in Clock
  /\ poll_msg_id = Cardinality(CounterCommands)

\* a write whose publish failed, a mode change, then a poll
C26_Witness ==
  /\ Len(issued) = 3
  /\ issued[1].kind = "write" /\ issued[2].kind = "mode" /\ issued[3].kind = "poll"
  /\ IssuedHeader(1).msg_id = 1 /\ IssuedHeader(3).msg_id = 2
  /\ io # <<>> /\ io.op = "send_poll_request" /\ io.returned = FALSE

\* C27: every outbound command of every class (write-single,
\* write-multiple, poll-request, mode-change write) carries the configId of
\* the active protocol definition, or 0 when none is loaded.
C27_ConfigIdOfProtocol ==
  \A i \in 1..Len(issued) :
    IssuedHeader(i).config_id =
      (IF protocol = None THEN 0 ELSE ProtocolDefinition(protocol).config_id)

\* the command class of a kind: a mode change is a single write
CommandClass(kind) == IF kind = "mode" THEN "write" ELSE kind

\* C28: write-single, write-multiple and poll-request commands each carry
\* one fixed userId tag, and the three tags are pairwise distinct.
C28_DistinctUserIdTags ==
  \A i, j \in 1..Len(issued) :
    IF CommandClass(issued[i].kind) = CommandClass(issued[j].kind)
    THEN IssuedHeader(i).user_id = IssuedHeader(j).user_id
    ELSE IssuedHeader(i).user_id # IssuedHeader(j).user_id

\* a 16-bit field, big-endian
Field16(v) == <<v \div 256, v % 256>>

\* C29: writeRegister(address, value) gives a frame of exactly 32 bytes:
\* the 24-byte header, then the 16-bit big-endian fields 1, address, 1,
\* value; the header's dataLength is 8, so the dataLength bytes after the
\* decoded header are exactly the payload.
C29_WriteSingleFrame ==
  (io # <<>> /\ io.op = "build_write_command") =>
    LET header == MsgHeader_from_bytes(io.command)[1]
        payload == Field16(1) \o Field16(io.register_address) \o Field16(1)
                     \o Field16(io.value) IN
    /\ Len(io.command) = 32
    /\ header.data_length = 8
    /\ SubSeq(io.command, 25, 24 + header.data_length) = payload
    /\ header.msg_id = io.msg_id /\ header.config_id = io.config_id

C29_Witness ==
  /\ io # <<>> /\ io.op = "build_write_command"
  /\ io.register_address = 57 /\ io.value = 256
  /\ SubSeq(io.command, 25, 32) = <<0, 1, 0, 57, 0, 1, 1, 0>>

\* the values of a write operation, a single integer being one value
ValuesOf(operation) ==
  IF operation[2][1] = "int" THEN <<operation[2][2]>> ELSE operation[2][2]
RECURSIVE Fields16(_)
Fields16(vs) == IF vs = <<>> THEN <<>> ELSE Field16(Head(vs)) \o Fields16(Tail(vs))
RECURSIVE ExpectedGroups(_)
ExpectedGroups(operations) ==
  IF operations = <<>> THEN <<>>
  ELSE Field16(Head(operations)[1]) \o Field16(Len(ValuesOf(Head(operations))))
         \o Fields16(ValuesOf(Head(operations))) \o ExpectedGroups(Tail(operations))
RECURSIVE ExpectedLength(_)
ExpectedLength(operations) ==
  IF operations = <<>> THEN 2
  ELSE 4 + 2 * Len(ValuesOf(Head(operations))) + ExpectedLength(Tail(operations))

\* C30: in write-multiple, (address, v) encodes byte for byte as (address,
\* [v]); the payload is the operation count, then (address, value count,
\* values) per operation in list order, and the header's dataLength is the
\* payload length 2 + sum of (4 + 2 * number of values).
C30_WriteMultipleFrame ==
  (io # <<>> /\ io.op = "build_multi_write_command") =>
    LET header == MsgHeader_from_bytes(io.command)[1]
        payload == Field16(Len(io.writes_list)) \o ExpectedGroups(io.writes_list) IN
    /\ io.command = io.command_listed
    /\ SubSeq(io.command, 25, Len(io.command)) = payload
    /\ header.data_length = Len(io.command) - 24
    /\ header.data_length = ExpectedLength(io.writes_list)

\* a single integer followed by a list of two values
C30_Witness ==
  /\ io # <<>> /\ io.op = "build_multi_write_command"
  /\ io.writes_list = <<<<57, IntValue(5)>>, <<196, ListValue(<<4, 5>>)>>>>
  /\ SubSeq(io.command, 25, Len(io.command))
       = <<0, 2, 0, 57, 0, 1, 0, 5, 0, 196, 0, 2, 0, 4, 0, 5>>
  /\ MsgHeader_from_bytes(io.command)[1].data_length = 16

\* ------------------------------------------------------------- C31
\* a reader takes coordinator.data and keeps the reference
reader_keeps_view ==
  /\ kept_view' = Some(coordinator_data)
  /\ UNCHANGED <<svars, tvars, cvars, coordinator_data>>

\* frames of a device that reports the mode registers, the PV block and a
\* register without a definition
ViewFrames ==
  {Frame(<<Segment(1, FC_READ_INPUT, 5, <<w, w>>)>>, 0) : w \in {1, 3}}
    \cup {Frame(<<Segment(2, FC_READ_INPUT, 22, <<w, 0, 0, 0>>)>>, 0) : w \in {300, 500}}
    \cup {Frame(<<Segment(3, FC_READ_INPUT, 100, <<50>>)>>, 0)}

ViewNext ==
  \/ \E data \in ViewFrames : handle_message(data)
  \/ reader_keeps_view

ViewSpec == ConfigInit /\ [][ViewNext]_vars

\* C31: a telemetry view is a consistent snapshot: for the view a reader
\* holds and every field name, attribute access and get(name) give the same
\* value, also after later frames were merged into the coordinator's state
C31_ConsistentSnapshot ==
  kept_view # NoneResult =>
    \A name \in DOMAIN last_data :
      TelemetryData_getattr(kept_view[1], last_data, name)
        = TelemetryData_get(last_data, name)

\* ------------------------------------------------------------- C32
MaxRepetitions == 10   \* decodes of the same word by the same register

\* a Decimal is <<digits, exponent>>: Decimal("0.1") is <<1, -1>>, and the
\* product of two Decimals is exact
Decimal(digits, exponent) == <<digits, exponent>>
Decimal_mul(a, b) == <<a[1] * b[1], a[2] + b[2]>>

\* esy_inverter_protocol.bytes_to_int16_be
bytes_to_int16_be(b0, b1) ==
  LET value == b0 * 256 + (b1 % 256) IN
  IF value >= 32768 THEN value - 65536 ELSE value

ByteTruncate_NONE == 0
ByteTruncate_HIGH_BYTE == 1
ByteTruncate_LOW_BYTE == 2

\* esy_inverter_protocol.ValueParser._parse_single_register; str(result)
\* writes the Decimal out digit for digit
parse_single_register(data, coefficient, data_type, byte_truncate) ==
  IF Len(data) < 2 THEN Decimal(0, 0)
  ELSE LET high_byte == data[1] % 256
           low_byte == data[2] % 256
           raw_value == IF byte_truncate = ByteTruncate_HIGH_BYTE THEN high_byte
                        ELSE IF byte_truncate = ByteTruncate_LOW_BYTE THEN low_byte
                        ELSE IF data_type = DATA_TYPE_SIGNED
                             THEN bytes_to_int16_be(high_byte, low_byte)
                             ELSE bytes_to_uint16_be(high_byte, low_byte)
       IN Decimal_mul(Decimal(raw_value, 0), coefficient)

\* the words decoded again and again, and the register definitions and
\* Decimal coefficients of the two register tables
ScalingWords == {0, 1, 1234, 32767, 32768, 65535}
ScalingRegisters ==
  {RegisterDefinition(t, 2, FC_READ_INPUT) : t \in fallback_input_regs}
DecimalCoefficients ==
  {Decimal(1, 0), Decimal(1, -1), Decimal(1, -2), Decimal(1, -3), Decimal(5, -2)}

\* one more decode of raw_unsigned by the parser's register branch
decode_value_call(reg, raw_unsigned) ==
  /\ \/ io = <<>>
     \/ /\ io # <<>> /\ io.op = "decode_value"
        /\ io.reg = reg /\ io.raw_unsigned = raw_unsigned
        /\ Len(io.results) < MaxRepetitions
  /\ io' = [op |-> "decode_value", reg |-> reg, raw_unsigned |-> raw_unsigned,
            results |-> (IF io = <<>> THEN <<>> ELSE io.results)
                           \o <<decode_value(reg, raw_unsigned)>>]
  /\ UNCHANGED <<svars, protocol, configured_mode, last_data, cvars, dvars>>

\* one more call of ValueParser._parse_single_register on the same bytes
parse_single_register_call(raw_unsigned, coefficient, data_type, byte_truncate) ==
  /\ \/ io = <<>>
     \/ /\ io # <<>> /\ io.op = "parse_single_register"
        /\ io.raw_unsigned = raw_unsigned /\ io.coefficient = coefficient
        /\ io.data_type = data_type /\ io.byte_truncate = byte_truncate
        /\ Len(io.results) < MaxRepetitions
  /\ io' = [op |-> "parse_single_register", raw_unsigned |-> raw_unsigned,
            coefficient |-> coefficient, data_type |-> data_type,
            byte_truncate |-> byte_truncate,
            results |-> (IF io = <<>> THEN <<>> ELSE io.results)
                           \o <<parse_single_register(pack_H(raw_unsigned), coefficient,
                                                     data_type, byte_truncate)>>]
  /\ UNCHANGED <<svars, protocol, configured_mode, last_data, cvars, dvars>>

ScalingNext ==
  \/ \E reg \in ScalingRegisters, w \in ScalingWords : decode_value_call(reg, w)
  \/ \E w \in ScalingWords, c \in DecimalCoefficients,
         t \in {DATA_TYPE_SIGNED, DATA_TYPE_UNSIGNED},
         b \in {ByteTruncate_NONE, ByteTruncate_HIGH_BYTE, ByteTruncate_LOW_BYTE} :
       parse_single_register_call(w, c, t, b)

ScalingSpec == Init /\ [][ScalingNext]_vars

\* the raw integer a definition reads from a word
RawInteger(w, data_type, byte_truncate) ==
  IF byte_truncate = ByteTruncate_HIGH_BYTE THEN w \div 256
  ELSE IF byte_truncate = ByteTruncate_LOW_BYTE THEN w % 256
  ELSE IF data_type = DATA_TYPE_SIGNED THEN Signed16(w) ELSE w
\* 10^n
RECURSIVE Pow10(_)
Pow10(n) == IF n = 0 THEN 1 ELSE 10 * Pow10(n - 1)
\* value is raw * num / den, without remainder: a result of the parser is
\* a whole number for a whole coefficient and a number of thousandths for a
\* fraction, a Decimal is digits * 10^exponent
ExactFloat(value, raw, c) ==
  IF c[2] = 1 THEN value = raw * c[1] ELSE value * c[2] = raw * c[1] * 1000
ExactDecimal(value, raw, c) ==
  value[1] * Pow10(3 + value[2]) = raw * c[1] * Pow10(3 + c[2])

ConfirmFrames ==
  {Frame(<<Segment(1, FC_READ_INPUT, 5, <<w, w>>)>>, 0) : w \in {1, 3}}
    \cup {Frame(<<Segment(2, FC_READ_INPUT, 22, <<300, 0, 0, 200>>)>>, 0), Frame(<<>>, 0)}

\* mode requests and their sends, with frames arriving in between
ConfirmNext ==
  \/ \E option \in RequestNames : async_select_option(option)
  \/ \E r \in Requests, sent \in BOOLEAN : attempt_mode_change_done(r, sent)
  \/ \E data \in ConfirmFrames : handle_message(data)

ConfirmSpec == ConfigInit /\ [][ConfirmNext]_vars

\* this step handled a frame in which no register stored the running mode
FrameWithoutRunningMode ==
  /\ io' # io /\ io'.op = "message"
  /\ "systemRunMode" \notin DOMAIN io'.values

\* C33: a frame that does not carry the running-mode register never
\* confirms a pending request and never changes the last-observed mode
C33_ConfirmedByModeRegister ==
  [][FrameWithoutRunningMode =>
       /\ Pending => Pending'
       /\ last_code' = last_code
       /\ self'.actual_mqtt_mode_name = self.actual_mqtt_mode_name]_vars

\* ------------------------------------------------------------- C35
\* C35: at most one confirmation timer is armed, and a timer is armed only
\* while a request is pending and only for the pending target
C35_TimerOnlyForPendingTarget ==
  /\ Cardinality(Armed) <= 1
  /\ \A r \in Armed :
       /\ Pending
       /\ closure[r].mode_name = self.pending_mode_name

\* ------------------------------------------------------------- C34
\* The event loop runs every task it holds: a send that was awaited returns,
\* a timer that stays armed fires, and a callback that was created runs.
FairSpec ==
  /\ Init /\ [][Next]_vars
  /\ \A r \in Requests :
       /\ WF_vars(\E sent \in BOOLEAN : attempt_mode_change_done(r, sent))
       /\ WF_vars(timer_fire(r))
       /\ WF_vars(timeout_callback(r))
       /\ WF_vars(\E sent \in BOOLEAN : timeout_callback_resume(r, sent))

\* this step ends the pending request
LeavesPending == Pending /\ ~Pending'
\* ... by a confirmation, by a send that failed, or by the callback that
\* finds the retries used up
LeftByConfirmation ==
  \E e \in out'.events : e[1] = "esy_sunhome_mode_changed" /\ e[3] = "success"
LeftBySendFailure == \E r \in Requests : SendFailed(r)
LeftByExhaustion ==
  /\ \E r \in Requests : CallbackStarts(r)
  /\ self.retry_count = MAX_RETRIES
  /\ \E e \in out'.events : e[1] = "esy_sunhome_mode_change_timeout"

\* C34: a pending request does not stay pending for ever: once requests
\* stop, sends return and timers fire, the machine leaves Pending, and it
\* leaves by a confirmation, by a failed send, or by the revert at the
\* (MAX_RETRIES + 1)-th counted timer firing
C34_LeavesPending ==
  /\ Pending ~> ~Pending
  /\ [][LeavesPending =>
          LeftByConfirmation \/ LeftBySendFailure \/ LeftByExhaustion]_vars

\* a request was reverted by the callback that found the retries used up
C34_Witness ==
  /\ ~Pending
  /\ TimeoutEvents # {}
  /\ \E r \in Requests : pc[r] = "done" /\ writes[r] = MAX_RETRIES + 1

\* ------------------------------------------------------------- C36
\* ESYSunhomeAPI.set_mode: the form posted to the mode endpoint
set_mode_form_data(mode) == [code |-> ToString(mode)]

\* the codes of set_mode's docstring: 1=Regular, 2=Emergency, 3=Sell, 5=BEM
set_mode_documented ==
  [n \in {"Regular Mode", "Emergency Mode", "Electricity Sell Mode",
          "Battery Energy Management"} |->
     CASE n = "Regular Mode" -> 1
       [] n = "Emergency Mode" -> 2
       [] n = "Electricity Sell Mode" -> 3
       [] n = "Battery Energy Management" -> 5]

\* async_select_option's mode_key = self.get_mode_key(option), then the
\* dispatch of ModeSelect._attempt_mode_change (187-209): set_mode_mqtt
\* builds the write of MODE_REGISTER, api.set_mode posts the form
attempt_mode_change_dispatch(option, use_mqtt_for_mode_change, now, publish_ok) ==
  LET mode_key == get_mode_key(option) IN
  /\ mode_key # NoKey
  /\ Len(issued) < MaxCommands
  /\ issued' = Append(issued,
       IF use_mqtt_for_mode_change
       THEN [kind |-> "mode",
             command |-> build_write_command(MODE_REGISTER, mode_key, NoneResult,
                                             now, protocol_config_id)]
       ELSE [kind |-> "api", command |-> set_mode_form_data(mode_key)])
  /\ io' = [op |-> "attempt_mode_change", mode_name |-> option, mode_key |-> mode_key,
            use_mqtt_for_mode_change |-> use_mqtt_for_mode_change,
            returned |-> IF use_mqtt_for_mode_change
                         THEN publish_command(publish_ok) ELSE publish_ok]
  /\ UNCHANGED <<svars, protocol, configured_mode, last_data, poll_msg_id, dvars>>
  /\ UNCHANGED mqtt_connected

DispatchNext ==
  \/ connect_mqtt
  \/ \E option \in DOMAIN modes_to_mqtt, use_mqtt \in BOOLEAN, now \in Clock,
         ok \in BOOLEAN : attempt_mode_change_dispatch(option, use_mqtt, now, ok)

DispatchSpec == ConfigInit /\ [][DispatchNext]_vars

\* the wire codes
WireCode(n) ==
  CASE n = "Regular Mode" -> 1
    [] n = "Emergency Mode" -> 4
    [] n = "Electricity Sell Mode" -> 3
    [] n = "Battery Energy Management" -> 5

\* C36: the display-code space and the wire-code space are not interchanged
\* at dispatch: the direct write puts name n's wire code into the mode
\* register, and the cloud API call sends the code set_mode documents for n
C36_DispatchCodeSpaces ==
  (io # <<>> /\ io.op = "attempt_mode_change") =>
    LET sent == issued[Len(issued)] IN
    IF io.use_mqtt_for_mode_change
    THEN /\ word_at(sent.command, HEADER_SIZE + 2) = MODE_REGISTER
         /\ word_at(sent.command, HEADER_SIZE + 6) = WireCode(io.mode_name)
    ELSE sent.command.code = ToString(set_mode_documented[io.mode_name])

\* ------------------------------------------------------------- C37
\* the options of the mode selector
Options == {attr_options[i] : i \in DOMAIN attr_options}

\* the frame of a device whose running-mode register (input 5) and
\* pattern register hold w
EchoFrame(w) == Frame(<<Segment(1, FC_READ_INPUT, 5, <<w, w>>)>>, 0)

\* the device reports the code that chain r wrote to it
device_echo(r) ==
  /\ pc[r] = "armed"
  /\ handle_message(EchoFrame(closure[r].mode_key))

EchoNext ==
  \/ \E option \in Options : async_select_option(option)
  \/ \E r \in Requests, sent \in BOOLEAN : attempt_mode_change_done(r, sent)
  \/ \E r \in Requests : device_echo(r)

EchoSpec == ConfigInit /\ [][EchoNext]_vars

\* this step handled the echo of the write of chain r, whose request is
\* the pending one, on a parser that has a register table
EchoOfPending(r) ==
  /\ protocol # None
  /\ pc[r] = "armed" /\ closure[r].mode_name = self.pending_mode_name
  /\ io' # io /\ io'.op = "message" /\ io'.data = EchoFrame(closure[r].mode_key)

\* C37: write/read round trip of the mode tables: every option n has a
\* wire code w, a frame whose running-mode register holds w decodes to the
\* display name n, and the echo confirms the pending request for n
C37_ModeRoundTrip ==
  [][/\ \A n \in Options : get_mode_key(n) # NoKey
     /\ \A r \in Requests :
          EchoOfPending(r) =>
            /\ io'.values["systemRunMode"] = get_mode_key(self.pending_mode_name)
            /\ last_code' = self.pending_mode_name
            /\ ~Pending'
            /\ self'.attr_current_option = self.pending_mode_name
            /\ Ev("esy_sunhome_mode_changed", self.pending_mode_name, "success")
                 \in out'.events]_vars

\* the echo of wire code 4 confirmed a request for Emergency Mode
C37_Witness ==
  /\ io # <<>> /\ io.op = "message" /\ io.data = EchoFrame(4)
  /\ last_code = "Emergency Mode" /\ ~Pending
  /\ self.attr_current_option = "Emergency Mode"
  /\ Ev("esy_sunhome_mode_changed", "Emergency Mode", "success") \in out.events

\* ------------------------------------------------------------- C38
MaxRetriesArgument == 3   \* retry_with_backoff is called with max_retries up to this

\* The wrapped function's behaviour is the list of what its successive
\* calls do: return a value or raise an exception of some class.
Outcome(kind, i) ==
  IF kind = "return"
  THEN [kind |-> "return", class |-> "", value |-> "result#" \o ToString(i)]
  ELSE [kind |-> "raise", class |-> kind, value |-> kind \o "#" \o ToString(i)]

\* `except exceptions as e` catches an instance of a listed class or of a
\* subclass; asyncio.CancelledError is a BaseException, not an Exception
subclasses(class) ==
  IF class = "Exception" THEN {"Exception", "TimeoutError", "ValueError"} ELSE {class}
caught(class, exceptions) == \E e \in exceptions : class \in subclasses(e)

\* the for loop of retry_with_backoff's wrapper (68-85), from `attempt` on;
\* delays in milliseconds, backoff_factor a rational
RECURSIVE wrapper(_, _, _, _, _, _, _, _)
wrapper(max_retries, backoff_factor, exceptions, outcomes, attempt, delay, last_exception, sleeps) ==
  IF attempt >= max_retries + 1
  THEN [calls |-> attempt, returned |-> NoneResult, raised |-> last_exception,
        sleeps |-> sleeps]
  ELSE LET o == outcomes[attempt + 1] IN
       IF o.kind = "return"
       THEN [calls |-> attempt + 1, returned |-> Some(o.value), raised |-> NoneResult,
             sleeps |-> sleeps]
       ELSE IF ~caught(o.class, exceptions)
       THEN [calls |-> attempt + 1, returned |-> NoneResult, raised |-> Some(o.value),
             sleeps |-> sleeps]
       ELSE IF attempt < max_retries
       THEN wrapper(max_retries, backoff_factor, exceptions, outcomes, attempt + 1,
                    (delay * backoff_factor[1]) \div backoff_factor[2],
                    Some(o.value), Append(sleeps, delay))
       ELSE wrapper(max_retries, backoff_factor, exceptions, outcomes, attempt + 1,
                    delay, Some(o.value), sleeps)

\* a wrapper that re-raises the exception of the first attempt
retry_with_backoff_first(max_retries, initial_delay, backoff_factor, exceptions, outcomes) ==
  LET res == wrapper(max_retries, backoff_factor, exceptions, outcomes,
                     0, initial_delay, NoneResult, <<>>) IN
  IF res.raised # NoneResult THEN [res EXCEPT !.raised = Some(outcomes[1].value)] ELSE res

\* one call of a function decorated with retry_with_backoff(max_retries,
\* initial_delay, backoff_factor, exceptions)
retry_with_backoff(max_retries, initial_delay, backoff_factor, exceptions, outcomes) ==
  wrapper(max_retries, backoff_factor, exceptions, outcomes,
          0, initial_delay, NoneResult, <<>>)

\* @retry_with_backoff(max_retries=3, initial_delay=2.0, backoff_factor=1.5)
\* on ESYSunhomeAPI.set_mode
set_mode_retry ==
  [max_retries |-> 3, initial_delay |-> 2000, backoff_factor |-> <<3, 2>>,
   exceptions |-> {"Exception"}]

OutcomeKinds == {"return", "TimeoutError", "ValueError", "CancelledError"}
OutcomeLists(n) ==
  {[i \in 1..n |-> Outcome(ks[i], i)] : ks \in [1..n -> OutcomeKinds]}

retry_with_backoff_call(max_retries, exceptions, outcomes) ==
  /\ io = <<>>
  /\ io' = [op |-> "retry_with_backoff", max_retries |-> max_retries,
            exceptions |-> exceptions, outcomes |-> outcomes]
           @@ retry_with_backoff(max_retries, 1000, <<2, 1>>, exceptions, outcomes)
  /\ UNCHANGED <<svars, protocol, configured_mode, last_data, cvars, dvars>>

\* one call of api.set_mode, as _attempt_mode_change makes it
set_mode_call(outcomes) ==
  /\ io = <<>>
  /\ io' = [op |-> "set_mode", max_retries |-> set_mode_retry.max_retries,
            exceptions |-> set_mode_retry.exceptions, outcomes |-> outcomes]
           @@ retry_with_backoff(set_mode_retry.max_retries, set_mode_retry.initial_delay,
                                 set_mode_retry.backoff_factor,
                                 set_mode_retry.exceptions, outcomes)
  /\ UNCHANGED <<svars, protocol, configured_mode, last_data, cvars, dvars>>

RetryNext ==
  \/ \E n \in 0..MaxRetriesArgument, exceptions \in {{"Exception"}, {"TimeoutError"}} :
       \E outcomes \in OutcomeLists(n + 1) : retry_with_backoff_call(n, exceptions, outcomes)
  \/ \E outcomes \in OutcomeLists(set_mode_retry.max_retries + 1) : set_mode_call(outcomes)

RetrySpec == Init /\ [][RetryNext]_vars

\* attempt i raised an exception of a listed class
RaisedListed(i) ==
  io.outcomes[i].kind = "raise" /\ caught(io.outcomes[i].class, io.exceptions)

\* C38: a function wrapped by retry_with_backoff(max_retries = n) is
\* invoked at most n + 1 times per call; the first attempt that succeeds
\* returns its result with no further attempt; an attempt is repeated only
\* after it raised a listed exception; and when all n + 1 attempts raise,
\* the exception of the last attempt is re-raised.  set_mode is invoked at
\* most 4 times
C38_BoundedRetries ==
  (io # <<>> /\ io.op \in {"retry_with_backoff", "set_mode"}) =>
    LET n == io.max_retries IN
    /\ io.calls <= n + 1
    /\ io.op = "set_mode" => io.calls <= 4
    /\ \A i \in 1..(io.calls - 1) : RaisedListed(i)
    /\ \A k \in 1..(n + 1) :
         (io.outcomes[k].kind = "return" /\ \A i \in 1..(k - 1) : RaisedListed(i)) =>
           io.calls = k /\ io.returned = Some(io.outcomes[k].value)
                        /\ io.raised = NoneResult
    /\ (\A i \in 1..(n + 1) : RaisedListed(i)) =>
         io.calls = n + 1 /\ io.raised = Some(io.outcomes[n + 1].value)
                          /\ io.returned = NoneResult

\* set_mode failed three times and succeeded at the fourth attempt, and
\* a call whose attempts all failed raised the last exception
C38_Witness ==
  /\ io # <<>> /\ io.op = "set_mode"
  /\ io.calls = 4 /\ io.returned = Some("result#4")
  /\ io.sleeps = <<2000, 3000, 4500>>

====
